---- MODULE Spec2Model ----
(***************************************************************************)
(* A model of the stacks-signer coordination run loop                      *)
(* (stacks-signer/src/runloop.rs) and of the chain-side tenure rules that  *)
(* its tests exercise.                                                     *)
(***************************************************************************)
EXTENDS Integers, Sequences, FiniteSets, TLC

\* ------------------------------------------------------------------------
\* Bounds of the model

\* Highest reward cycle the chain reaches.
MaxCycle == 2
\* Number of operator commands submitted over a run.
MaxCmds == 2
\* Burnchain height a boot plan reaches.
MaxBurn == 4
\* Blocks a chainstate holds, malleablized copies included.
MaxBlocks == 6
\* Malleablized copies of one block that still carry enough signatures.
MaxMalleablized == 1
\* Entries of a reward set, and holders of the signers' StackerDB slots.
MaxSigners == 2
\* Slots (signing weight) of one reward-set entry.
MaxWeight == 2
\* Largest reward cycle number a get-signer request is built for.
MaxCycleNum == 11
\* Most tenures, and most blocks, a test node records.
MaxTenures == 2
MaxRecorded == 3

\* ------------------------------------------------------------------------
\* Values

None == "None"

\* An Option<RunLoopCommand> is a set of at most one command.
NoCmd == {}
Some(c) == CHOOSE x \in c : TRUE

Cycles == 0..(MaxCycle + 1)

\* The lifecycle states of a Signer State Machine.
SignerStates == {"Idle", "OperationInProgress", "TenureExceeded"}

Range(s) == {s[i] : i \in DOMAIN s}

\* The orders in which a HashMap of keys D may be iterated.
Orders(D) == {s \in [1..Cardinality(D) -> D] : Range(s) = D}

\* ------------------------------------------------------------------------
\* State

VARIABLES
    chain_cycle,     \* the node's current reward cycle
    calc_next,       \* whether the next cycle's reward set is calculated
    reg_cur,         \* whether the current cycle's committee holds this signer
    reg_next,        \* whether the next cycle's calculated committee does
    stacks_signers,  \* RunLoop.stacks_signers: key -> Signer
    state,           \* RunLoop.state
    pc,              \* position of the pass: "idle", "refresh" or "process"
    event,           \* the event of the pass in progress
    cmd,             \* the command of the pass in progress
    refresh_ok,      \* whether the pass's refresh step succeeded
    next_id,         \* identity of the next command submitted
    last,            \* record of the pass that just ended, until the next
    begun,           \* ids of the commands a machine has begun
    dropped,         \* ids of the commands queued on a machine when deleted
    dkg_calls        \* the update_dkg calls of the pass in progress

\* The chain a test peer builds and processes.
VARIABLES
    sortdb,                    \* burnchain snapshots, by height; a snapshot's
                               \* consensus hash is its height
    chainstate,                \* [blocks, tenures]: the Nakamoto block store
    stacks_tip,                \* id of the canonical Stacks tip
    last_tenure_change,        \* the boot plan's last BlockFound payload
    blocks_since_last_tenure,  \* the boot plan's count of blocks since it
    last_block,                \* id of the last block the boot plan produced
    made_blocks,               \* blocks the last step built, copies included
    processed_blocks           \* ids of the blocks the last step processed

runloop_vars == <<chain_cycle, calc_next, reg_cur, reg_next, stacks_signers,
                  state, pc, event, cmd, refresh_ok, next_id, last, begun,
                  dropped, dkg_calls>>

chain_vars == <<sortdb, chainstate, stacks_tip, last_tenure_change,
                blocks_since_last_tenure, last_block, made_blocks,
                processed_blocks>>

\* A signer that evaluates the block proposals of the miner.
VARIABLES
    signer_db,               \* SignerDb: the BlockInfo of every block recorded
    sortitions_view,         \* the SortitionsView last fetched from the node
    last_tenures_proposals,  \* the proposals of the last tenure mined, if any
    checked                  \* the last proposal evaluated, and the verdict

signer_vars == <<signer_db, sortitions_view, last_tenures_proposals, checked>>

\* The resolver of a reward cycle's signer, and the node it asks.
VARIABLES
    node,            \* what the stacks node reports of the resolved cycle
    resolve_cycle,   \* the reward cycle get_stacks_node_info is called for
    resolved,        \* the last call: the step that failed, and the result
    resolved_infos   \* every StacksNodeInfo the calls have returned so far

resolver_vars == <<node, resolve_cycle, resolved, resolved_infos>>

\* The boot run loop of a node, and the thread that watches for epoch 3.0.
VARIABLES
    epoch_3_start_height,   \* the burn height at which epoch 3.0 starts
    burn_height,            \* height of the canonical burnchain tip
    active_loop,            \* BootRunLoop::active_loop: "Epoch2" or "Epoch3"
    termination_switch,     \* TRUE for as long as the run loop is to keep going
    neon_running,           \* the thread is inside NeonRunLoop::start
    naka_running,           \* the thread is inside NakaRunLoop::start
    neon_starts,            \* calls of NeonRunLoop::start so far
    naka_starts,            \* calls of NakaRunLoop::start so far
    boot_pc,                \* where the thread that called start is
    stopper_pc,             \* where the epoch-2/3-boot thread is
    exited_for_transition,  \* what the epoch-2/3-boot thread returned
    coord_channel,          \* the run loop whose coordinator channels the
                            \* shared mutex holds: "neon" or "naka"
    naka_switch,            \* the switch the Nakamoto run loop observes:
                            \* "obtained" for the one get_termination_switch
                            \* gave out before start, "new" for another,
                            \* "none" while there is no Nakamoto run loop
    stop_requested,         \* "no", or the active loop at the time a holder
                            \* of the switch stored false into it
    transition_check        \* the last test for the epoch 3.0 transition:
                            \* the burn height at the time, whether the
                            \* sortition database could be read, the answer

boot_vars == <<epoch_3_start_height, burn_height, active_loop,
               termination_switch, neon_running, naka_running, neon_starts,
               naka_starts, boot_pc, stopper_pc, exited_for_transition,
               coord_channel, naka_switch, stop_requested,
               transition_check>>

\* The record a TestStacksNode keeps of the tenures it mined.
VARIABLES
    nakamoto_blocks,   \* the tenures recorded, each the list of its blocks
    node_op,           \* the last call: "none", "tenure" or "extended"
    node_panic         \* the last call panicked

node_vars == <<nakamoto_blocks, node_op, node_panic>>

\* A get-signer request on its way from a client to the node's handler.
VARIABLES
    getsigner_request,   \* the request new_getsigner built last, if any
    getsigner_handler,   \* GetSignerRequestHandler: the two decoded fields
    getsigner_decoded    \* how the node decoded the request, if it has

http_vars == <<getsigner_request, getsigner_handler, getsigner_decoded>>

vars == <<runloop_vars, chain_vars, signer_vars, resolver_vars, boot_vars, node_vars, http_vars>>

\* ------------------------------------------------------------------------
\* The node's view of the chain, as the stacks client reports it

\* StacksClient::reward_set_calculated: the reward set of every cycle up to
\* the current one exists; the next cycle's appears during the prepare phase.
reward_set_calculated(rc) ==
    \/ rc <= chain_cycle
    \/ rc = chain_cycle + 1 /\ calc_next

\* Whether the local signer's address is in the committee of cycle rc (the
\* run loop asks only about the current and the next cycle).
registered(rc) ==
    \/ rc = chain_cycle /\ reg_cur
    \/ rc = chain_cycle + 1 /\ reg_next

\* RunLoop::get_stacks_node_info, by outcome: "Err" (a transient error),
\* "None" (not registered) or "Some" (a resolved StacksNodeInfo).
get_stacks_node_info(rc, rpc_ok) ==
    IF ~rpc_ok THEN "Err"
    ELSE IF ~reward_set_calculated(rc) THEN "Err"
    ELSE IF ~registered(rc) THEN "None"
    ELSE "Some"

\* ------------------------------------------------------------------------
\* The Signer State Machine (crate::signer::Signer), as its callers see it

\* Signer::new: an idle machine with an empty queue whose DKG has not run.
SignerNew(rc) ==
    [reward_cycle |-> rc, state |-> "Idle", commands |-> <<>>,
     dkg_done |-> FALSE]

\* What a call of update_dkg finds: DKG is not yet needed for the cycle, or
\* it is and the peers' shares are missing, or they are all there.
DkgRounds == {"not_needed", "missing_shares", "complete"}

\* A variant of update_dkg that drives a round whenever one is needed, even
\* after DKG is complete.
update_dkg_again(s, round) ==
    IF round = "not_needed" THEN [ok |-> TRUE, signer |-> s, drove |-> FALSE]
    ELSE IF round = "complete"
        THEN [ok |-> TRUE, signer |-> [s EXCEPT !.dkg_done = TRUE],
              drove |-> TRUE]
    ELSE [ok |-> FALSE, signer |-> s, drove |-> TRUE]

\* Signer::update_dkg: returns at once when DKG is complete or not yet needed
\* for the cycle; otherwise drives the round, which fails while peer shares
\* are missing. drove tells whether the call drove a round.
update_dkg(s, round) ==
    IF s.dkg_done \/ round = "not_needed"
    THEN [ok |-> TRUE, signer |-> s, drove |-> FALSE]
    ELSE IF round = "complete"
        THEN [ok |-> TRUE, signer |-> [s EXCEPT !.dkg_done = TRUE],
              drove |-> TRUE]
    ELSE [ok |-> FALSE, signer |-> s, drove |-> TRUE]

\* Signer::process_event. outcome is "err" (the machine fails to process),
\* "ok" (processed) or "done" (processed, and the round in progress ended).
\* A machine whose reward cycle has passed becomes TenureExceeded.
process_event(s, outcome) ==
    IF outcome = "err" THEN [ok |-> FALSE, signer |-> s]
    ELSE IF s.reward_cycle < chain_cycle
        THEN [ok |-> TRUE, signer |-> [s EXCEPT !.state = "TenureExceeded"]]
    ELSE IF outcome = "done" /\ s.state = "OperationInProgress"
        THEN [ok |-> TRUE, signer |-> [s EXCEPT !.state = "Idle"]]
    ELSE [ok |-> TRUE, signer |-> s]

\* Signer::process_next_command: an idle machine pops the front of its queue
\* and begins that command; a busy or retired machine leaves its queue alone.
process_next_command(s) ==
    IF s.state = "Idle" /\ s.commands # <<>>
    THEN [signer |-> [s EXCEPT !.state = "OperationInProgress",
                               !.commands = Tail(s.commands)],
          begun |-> {Head(s.commands)}]
    ELSE [signer |-> s, begun |-> {}]

\* ------------------------------------------------------------------------
\* RunLoop (stacks-signer/src/runloop.rs)

\* HashMap::insert
MapInsert(m, k, v) ==
    [x \in (DOMAIN m) \cup {k} |-> IF x = k THEN v ELSE m[x]]

\* HashMap::remove of a set of keys
MapRemove(m, ks) == [x \in (DOMAIN m) \ ks |-> m[x]]

\* A variant of reward_index that forgets the parity reduction.
reward_index_no_mod(reward_cycle) == reward_cycle

\* The key a reward cycle's machine is stored under.
reward_index(reward_cycle) == reward_cycle % 2

\* A variant of refresh_signer_config that resolves the cycle and builds its
\* machine anew on every call.
refresh_signer_config_anew(signers, reward_cycle, rpc_ok) ==
    LET idx == reward_index(reward_cycle)
        new_config == get_stacks_node_info(reward_cycle, rpc_ok)
    IN  IF new_config = "Err" THEN [ok |-> FALSE, signers |-> signers]
        ELSE IF new_config = "Some"
            THEN [ok |-> TRUE,
                  signers |-> MapInsert(signers, idx, SignerNew(reward_cycle))]
        ELSE [ok |-> TRUE, signers |-> signers]

\* A variant of refresh_signer_config that resolves a cycle only when no
\* machine is stored under its key.
refresh_signer_config_keep_old(signers, reward_cycle, rpc_ok) ==
    LET idx == reward_index(reward_cycle)
        new_config == get_stacks_node_info(reward_cycle, rpc_ok)
    IN  IF idx \in DOMAIN signers THEN [ok |-> TRUE, signers |-> signers]
        ELSE IF new_config = "Err" THEN [ok |-> FALSE, signers |-> signers]
        ELSE IF new_config = "Some"
            THEN [ok |-> TRUE,
                  signers |-> MapInsert(signers, idx, SignerNew(reward_cycle))]
        ELSE [ok |-> TRUE, signers |-> signers]

\* RunLoop::refresh_signer_config
refresh_signer_config(signers, reward_cycle, rpc_ok) ==
    LET idx == reward_index(reward_cycle)
        needs_refresh ==
            IF idx \in DOMAIN signers
            THEN signers[idx].reward_cycle # reward_cycle
            ELSE TRUE
        new_config == get_stacks_node_info(reward_cycle, rpc_ok)
    IN  IF ~needs_refresh THEN [ok |-> TRUE, signers |-> signers]
        ELSE IF new_config = "Err" THEN [ok |-> FALSE, signers |-> signers]
        ELSE IF new_config = "Some"
            THEN [ok |-> TRUE,
                  signers |-> MapInsert(signers, idx, SignerNew(reward_cycle))]
        ELSE [ok |-> TRUE, signers |-> signers]

\* No update_dkg call yet. called holds the reward cycles of the machines
\* called in the pass so far; errored, drove and not_needed those of the
\* machines whose call, in the last attempt of the refresh step, failed,
\* drove a round, or found DKG not needed.
NoDkgCalls ==
    [logged |-> TRUE, called |-> {}, errored |-> {}, drove |-> {},
     not_needed |-> {}]

\* The log of the runs that do not examine the update_dkg calls: it stays
\* empty.
Unlogged == [NoDkgCalls EXCEPT !.logged = FALSE]

\* The update_dkg loop of the refresh closure: the machines are visited in
\* the map's iteration order and the first error ends the loop. acc carries
\* the map and the calls made.
RECURSIVE UpdateDkgLoop(_, _, _, _)
UpdateDkgLoop(acc, order, i, rounds) ==
    IF i > Len(order) THEN acc
    ELSE LET k == order[i]
             s == acc.signers[k]
             r == update_dkg(s, rounds[k])
             calls == [logged |-> acc.calls.logged,
                       called |-> acc.calls.called \cup {s.reward_cycle},
                       errored |-> acc.calls.errored
                                   \cup (IF r.ok THEN {} ELSE {s.reward_cycle}),
                       drove |-> acc.calls.drove
                                 \cup (IF r.drove THEN {s.reward_cycle} ELSE {}),
                       not_needed |->
                           acc.calls.not_needed
                           \cup (IF rounds[k] = "not_needed"
                                 THEN {s.reward_cycle} ELSE {})]
         IN  IF ~r.ok
             THEN [ok |-> FALSE, signers |-> acc.signers, calls |-> calls]
             ELSE UpdateDkgLoop([ok |-> TRUE,
                                 signers |-> [acc.signers EXCEPT ![k] = r.signer],
                                 calls |-> calls],
                                order, i + 1, rounds)

\* u64::wrapping_add. Reward cycles stay far below 2^64, where it wraps.
wrapping_add(a, b) == a + b

\* The closure of RunLoop::refresh_signers_with_retry, run once. fail_at
\* names the client call that fails: "none", "cycle", "cur" or "next".
RefreshClosure(signers, st, fail_at, order, rounds) ==
    LET current_reward_cycle == chain_cycle
        next_reward_cycle == wrapping_add(current_reward_cycle, 1)
        r1 == refresh_signer_config(signers, current_reward_cycle,
                                    fail_at # "cur")
        r2 == refresh_signer_config(r1.signers, next_reward_cycle,
                                    fail_at # "next")
        r3 == UpdateDkgLoop([ok |-> TRUE, signers |-> r2.signers,
                             calls |-> NoDkgCalls], order, 1, rounds)
    IN  IF fail_at = "cycle"
            THEN [ok |-> FALSE, signers |-> signers, state |-> st,
                  calls |-> NoDkgCalls]
        ELSE IF ~r1.ok
            THEN [ok |-> FALSE, signers |-> r1.signers, state |-> st,
                  calls |-> NoDkgCalls]
        ELSE IF ~r2.ok
            THEN [ok |-> FALSE, signers |-> r2.signers, state |-> st,
                  calls |-> NoDkgCalls]
        ELSE IF ~r3.ok
            THEN [ok |-> FALSE, signers |-> r3.signers, state |-> st,
                  calls |-> r3.calls]
        ELSE IF DOMAIN r3.signers = {}
            THEN [ok |-> FALSE, signers |-> r3.signers, state |-> st,
                  calls |-> r3.calls]
        ELSE [ok |-> TRUE, signers |-> r3.signers, state |-> "Initialized",
              calls |-> r3.calls]

\* The map after the two refresh_signer_config calls of an attempt: its keys
\* are what the update_dkg loop iterates over.
AfterConfig(signers, fail_at) ==
    LET r1 == refresh_signer_config(signers, chain_cycle, fail_at # "cur")
    IN  refresh_signer_config(r1.signers, wrapping_add(chain_cycle, 1),
                              fail_at # "next").signers

\* A variant of the error branch that goes on to process in any state.
OnRefreshErrorProceed(st) == "process"

\* A variant of the error branch that ends the pass in any state.
OnRefreshErrorReturn(st) == "return"

\* RunLoop::run_one_pass, lines 270-279: what the pass does when the refresh
\* step has failed: it returns if the run loop was never initialized and
\* goes on to process otherwise.
OnRefreshError(st) ==
    IF st = "Uninitialized" THEN "return" ELSE "process"

\* A variant of RouteCommand that keeps a single pending command in place
\* of a queue.
RouteCommandSinglePending(signers, c) ==
    IF c = NoCmd THEN signers
    ELSE LET command == Some(c)
             reward_cycle == command.reward_cycle
         IN  IF (reward_cycle % 2) \in DOMAIN signers
             THEN IF signers[reward_cycle % 2].reward_cycle # reward_cycle
                  THEN signers
                  ELSE [signers EXCEPT
                            ![reward_cycle % 2].commands = <<command.id>>]
             ELSE signers

\* A variant of RouteCommand that does not compare the machine's reward
\* cycle with the command's.
RouteCommandNoCycleCheck(signers, c) ==
    IF c = NoCmd THEN signers
    ELSE LET command == Some(c)
             reward_cycle == command.reward_cycle
         IN  IF (reward_cycle % 2) \in DOMAIN signers
             THEN [signers EXCEPT
                       ![reward_cycle % 2].commands = Append(@, command.id)]
             ELSE signers

\* RunLoop::run_one_pass, lines 280-295: route the pass's command.
RouteCommand(signers, c) ==
    IF c = NoCmd THEN signers
    ELSE LET command == Some(c)
             reward_cycle == command.reward_cycle
         IN  IF (reward_cycle % 2) \in DOMAIN signers
             THEN IF signers[reward_cycle % 2].reward_cycle # reward_cycle
                  THEN signers
                  ELSE [signers EXCEPT
                            ![reward_cycle % 2].commands = Append(@, command.id)]
             ELSE signers

\* A variant of DeliverLoop that leaves the loop at the first machine whose
\* process_event fails.
RECURSIVE DeliverLoopAbortOnError(_, _, _, _)
DeliverLoopAbortOnError(acc, order, i, outcomes) ==
    IF i > Len(order) THEN acc
    ELSE LET k == order[i]
             e == process_event(acc.signers[k], outcomes[k])
             n == process_next_command(e.signer)
         IN  IF ~e.ok
             THEN [acc EXCEPT !.delivered = @ \cup {k},
                              !.errored = @ \cup {k}]
             ELSE DeliverLoopAbortOnError(
                      [signers |-> [acc.signers EXCEPT ![k] = n.signer],
                       delivered |-> acc.delivered \cup {k},
                       errored |-> acc.errored,
                       ran |-> acc.ran \cup {k},
                       begun |-> acc.begun \cup n.begun],
                      order, i + 1, outcomes)

\* RunLoop::run_one_pass, lines 296-305: deliver the event to each machine
\* and run its next command. acc carries the map and the pass's log.
RECURSIVE DeliverLoop(_, _, _, _)
DeliverLoop(acc, order, i, outcomes) ==
    IF i > Len(order) THEN acc
    ELSE LET k == order[i]
             e == process_event(acc.signers[k], outcomes[k])
             n == process_next_command(e.signer)
         IN  DeliverLoop(
                 [signers |-> [acc.signers EXCEPT ![k] = n.signer],
                  delivered |-> acc.delivered \cup {k},
                  errored |-> acc.errored \cup (IF e.ok THEN {} ELSE {k}),
                  ran |-> acc.ran \cup {k},
                  begun |-> acc.begun \cup n.begun],
                 order, i + 1, outcomes)

\* A variant of cleanup_stale_signers that empties the map as soon as one
\* machine is stale.
cleanup_clear_all(signers) ==
    IF \E k \in DOMAIN signers : signers[k].state = "TenureExceeded"
    THEN MapRemove(signers, DOMAIN signers)
    ELSE signers

\* RunLoop::cleanup_stale_signers
cleanup_stale_signers(signers) ==
    LET to_delete == {k \in DOMAIN signers :
                          signers[k].state = "TenureExceeded"}
    IN  MapRemove(signers, to_delete)

\* The ids queued on the machines that cleanup deletes.
DroppedBy(signers) ==
    UNION {Range(signers[k].commands) :
               k \in {x \in DOMAIN signers :
                          signers[x].state = "TenureExceeded"}}

\* ------------------------------------------------------------------------
\* The Nakamoto chainstate: blocks, tenures and the tenure checks

\* Option<NakamotoTenure> and Option<TenureChangePayload> are sets of at most
\* one element.
NoTenure == {}

\* Id of the last epoch 2.x block, the parent of the first Nakamoto block.
Epoch2Tip == 0

\* NakamotoBlock::get_tenure_tx_payload: the block's tenure-change payload,
\* whatever its cause.
get_tenure_tx_payload(block) == block.tenure_tx

\* NakamotoBlock::get_tenure_change_tx_payload: the payload of a block that
\* starts a tenure by BlockFound.
get_tenure_change_tx_payload(block) ==
    {tx \in block.tenure_tx : tx.cause = "BlockFound"}

\* NakamotoChainState::get_ongoing_tenure: the tenure of the nearest block at
\* or before `tip` that carries a tenure-change.
RECURSIVE get_ongoing_tenure(_, _)
get_ongoing_tenure(cs, tip) ==
    IF tip \notin DOMAIN cs.blocks THEN NoTenure
    ELSE IF tip \in DOMAIN cs.tenures THEN {cs.tenures[tip]}
    ELSE get_ongoing_tenure(cs, cs.blocks[tip].header.parent_block_id)

\* NakamotoChainState::get_coinbase_height: the coinbase height recorded for
\* the tenure ongoing at the block.
get_coinbase_height(cs, block_id) ==
    {t.coinbase_height : t \in get_ongoing_tenure(cs, block_id)}

\* NakamotoChainState::get_nakamoto_tenure_length: the number of blocks of
\* the block's tenure up to and including it.
RECURSIVE get_nakamoto_tenure_length(_, _)
get_nakamoto_tenure_length(cs, block_id) ==
    LET hdr == cs.blocks[block_id].header
        parent == hdr.parent_block_id
    IN  IF parent \in DOMAIN cs.blocks
           /\ cs.blocks[parent].header.consensus_hash = hdr.consensus_hash
        THEN 1 + get_nakamoto_tenure_length(cs, parent)
        ELSE 1

\* NakamotoChainState::check_tenure_continuity: whether the block continues
\* the tenure of its parent, a tenure being identified by its consensus hash.
check_tenure_continuity(cs, parent_ch, block_header) ==
    block_header.consensus_hash = parent_ch

\* NakamotoChainState::check_nakamoto_tenure: the tenure ongoing at the
\* block's parent if every identifying field of the tenure-change agrees with
\* the chain's records, and no tenure otherwise.
check_nakamoto_tenure(cs, sdb, block_header, tenure_payload) ==
    LET ongoing == get_ongoing_tenure(cs, block_header.parent_block_id)
    IN  IF /\ ongoing # NoTenure
           \* the new tenure is the one of the block, and of a known election
           /\ tenure_payload.tenure_consensus_hash = block_header.consensus_hash
           /\ tenure_payload.tenure_consensus_hash \in DOMAIN sdb
           /\ tenure_payload.cause = "BlockFound" =>
                 /\ sdb[tenure_payload.tenure_consensus_hash].sortition
                 /\ tenure_payload.prev_tenure_consensus_hash
                        # tenure_payload.tenure_consensus_hash
           /\ tenure_payload.cause = "Extended" =>
                 tenure_payload.prev_tenure_consensus_hash
                     = tenure_payload.tenure_consensus_hash
           \* the previous tenure is the one ongoing at the parent
           /\ tenure_payload.prev_tenure_consensus_hash
                  = Some(ongoing).tenure_id_consensus_hash
           \* the burn view is the burnchain tip
           /\ tenure_payload.burn_view_consensus_hash = Len(sdb)
           \* the previous tenure ends at the parent, after that many blocks
           /\ tenure_payload.previous_tenure_end = block_header.parent_block_id
           /\ tenure_payload.previous_tenure_blocks
                  = get_nakamoto_tenure_length(cs, block_header.parent_block_id)
        THEN ongoing
        ELSE NoTenure

\* A variant of the tenure record in which every tenure-change raises the
\* coinbase height.
new_tenure_always_raises(cs, block_id, block_header, tenure_payload) ==
    LET ongoing == get_ongoing_tenure(cs, block_header.parent_block_id)
        height == IF ongoing = NoTenure THEN 0 ELSE Some(ongoing).coinbase_height
    IN  [tenure_id_consensus_hash |-> tenure_payload.tenure_consensus_hash,
         prev_tenure_id_consensus_hash |-> tenure_payload.prev_tenure_consensus_hash,
         burn_view_consensus_hash |-> tenure_payload.burn_view_consensus_hash,
         cause |-> tenure_payload.cause,
         block_id |-> block_id,
         coinbase_height |-> height + 1,
         num_blocks_confirmed |-> tenure_payload.previous_tenure_blocks]

\* A variant of the tenure record in which an extension records again the
\* tenure it extends.
new_tenure_extension_keeps_record(cs, block_id, block_header, tenure_payload) ==
    LET ongoing == get_ongoing_tenure(cs, block_header.parent_block_id)
        height == IF ongoing = NoTenure THEN 0 ELSE Some(ongoing).coinbase_height
    IN  IF tenure_payload.cause = "Extended" /\ ongoing # NoTenure
        THEN Some(ongoing)
        ELSE [tenure_id_consensus_hash |-> tenure_payload.tenure_consensus_hash,
              prev_tenure_id_consensus_hash |->
                  tenure_payload.prev_tenure_consensus_hash,
              burn_view_consensus_hash |-> tenure_payload.burn_view_consensus_hash,
              cause |-> tenure_payload.cause,
              block_id |-> block_id,
              coinbase_height |-> height + 1,
              num_blocks_confirmed |-> tenure_payload.previous_tenure_blocks]

\* The NakamotoTenure recorded when a block with a tenure-change is
\* processed: BlockFound raises the coinbase height by one, Extended keeps it.
new_tenure(cs, block_id, block_header, tenure_payload) ==
    LET ongoing == get_ongoing_tenure(cs, block_header.parent_block_id)
        height == IF ongoing = NoTenure THEN 0 ELSE Some(ongoing).coinbase_height
    IN  [tenure_id_consensus_hash |-> tenure_payload.tenure_consensus_hash,
         prev_tenure_id_consensus_hash |-> tenure_payload.prev_tenure_consensus_hash,
         burn_view_consensus_hash |-> tenure_payload.burn_view_consensus_hash,
         cause |-> tenure_payload.cause,
         block_id |-> block_id,
         coinbase_height |-> IF tenure_payload.cause = "BlockFound"
                             THEN height + 1 ELSE height,
         num_blocks_confirmed |-> tenure_payload.previous_tenure_blocks]

\* TestPeer::make_nakamoto_vrf_proof: the miner's proof over the sortition
\* hash of the burnchain tip, which is the sortition of the tenure about to
\* start. The plan has one miner key, so the sortition determines the proof.
make_nakamoto_vrf_proof(sortition) == [sortition_hash |-> sortition]

\* A variant of the block builder's coinbase rule that puts a coinbase, with
\* the proof of the block's tenure, in every block.
coinbase_in_every_block(block) ==
    {make_nakamoto_vrf_proof(block.header.consensus_hash)}

\* The VRF proof in the coinbase of a block of make_nakamoto_tenure_blocks:
\* make_nakamoto_tenure hands the builder a coinbase with the proof together
\* with the BlockFound tenure-change, make_nakamoto_tenure_extension hands it
\* none, and the builder puts both in the first block only.
coinbase_vrf_proof(block) ==
    {make_nakamoto_vrf_proof(tx.tenure_consensus_hash) :
         tx \in get_tenure_change_tx_payload(block)}

\* Relayer::process_new_nakamoto_block followed by the processing of the
\* stored block: a block is accepted when its parent is known, its height
\* follows its parent's, and its tenure-change is valid or, without one, it
\* continues its parent's tenure. Returns [accepted, cs].
process_new_nakamoto_block(cs, sdb, block) ==
    LET hdr == block.header
        block_id == Len(cs.blocks) + 1
        valid ==
            /\ hdr.parent_block_id \in DOMAIN cs.blocks
            /\ hdr.chain_length
                   = cs.blocks[hdr.parent_block_id].header.chain_length + 1
            /\ IF get_tenure_tx_payload(block) # NoTenure
               THEN check_nakamoto_tenure(cs, sdb, hdr,
                        Some(get_tenure_tx_payload(block))) # NoTenure
               ELSE check_tenure_continuity(cs,
                        cs.blocks[hdr.parent_block_id].header.consensus_hash, hdr)
    IN  IF ~valid THEN [accepted |-> FALSE, cs |-> cs]
        ELSE [accepted |-> TRUE,
              cs |-> [blocks |-> Append(cs.blocks, block),
                      tenures |->
                          IF get_tenure_tx_payload(block) = NoTenure
                          THEN cs.tenures
                          ELSE (block_id :> new_tenure(cs, block_id, hdr,
                                    Some(get_tenure_tx_payload(block))))
                               @@ cs.tenures,
                      vrf_proofs |->
                          IF coinbase_vrf_proof(block) = {}
                          THEN cs.vrf_proofs
                          ELSE (block_id :> Some(coinbase_vrf_proof(block)))
                               @@ cs.vrf_proofs]]

\* NakamotoChainState::get_nakamoto_tenure_vrf_proof: the proof stored in the
\* headers table with the block, if one is.
get_nakamoto_tenure_vrf_proof(cs, block_id) ==
    IF block_id \in DOMAIN cs.vrf_proofs THEN {cs.vrf_proofs[block_id]} ELSE {}

\* NakamotoChainState::get_tenure_start_block_header: in the fork of `tip`,
\* the first block of the tenure of `consensus_hash`.
RECURSIVE get_tenure_start_block_header(_, _, _)
get_tenure_start_block_header(cs, tip, consensus_hash) ==
    IF tip \notin DOMAIN cs.blocks THEN {}
    ELSE LET hdr == cs.blocks[tip].header
             parent == hdr.parent_block_id
         IN  IF /\ hdr.consensus_hash = consensus_hash
                /\ \/ parent \notin DOMAIN cs.blocks
                   \/ cs.blocks[parent].header.consensus_hash # consensus_hash
             THEN {tip}
             ELSE get_tenure_start_block_header(cs, parent, consensus_hash)

\* NakamotoChainState::get_block_found_tenure: in the fork of `tip`, the
\* tenure recorded for the BlockFound tenure-change of the tenure of
\* `consensus_hash`.
RECURSIVE get_block_found_tenure(_, _, _)
get_block_found_tenure(cs, tip, consensus_hash) ==
    IF tip \notin DOMAIN cs.blocks THEN NoTenure
    ELSE IF /\ tip \in DOMAIN cs.tenures
            /\ cs.tenures[tip].cause = "BlockFound"
            /\ cs.tenures[tip].tenure_id_consensus_hash = consensus_hash
    THEN {cs.tenures[tip]}
    ELSE get_block_found_tenure(cs, cs.blocks[tip].header.parent_block_id,
                                consensus_hash)

\* NakamotoChainState::get_block_vrf_proof: the proof of the tenure of
\* `consensus_hash`, looked up with the tenure's first block in the fork of
\* `tip`.
get_block_vrf_proof(cs, tip, consensus_hash) ==
    UNION {get_nakamoto_tenure_vrf_proof(cs, start) :
               start \in get_tenure_start_block_header(cs, tip, consensus_hash)}

\* NakamotoChainState::get_parent_vrf_proof: the proof of the tenure that the
\* block-commit of the tenure of `consensus_hash` builds on.
get_parent_vrf_proof(cs, tip, sdb, consensus_hash) ==
    get_block_vrf_proof(cs, tip, sdb[consensus_hash].parent_tenure_id)

\* TestPeer::get_parent_tenure_start_header: the first block of the tenure
\* that the tenure-change of the first block of the tenure of `consensus_hash`
\* names as the previous one.
get_parent_tenure_start_header(cs, tip, consensus_hash) ==
    UNION {get_tenure_start_block_header(cs, tip, tx.prev_tenure_consensus_hash) :
               tx \in UNION {get_tenure_change_tx_payload(cs.blocks[start]) :
                                 start \in get_tenure_start_block_header(
                                               cs, tip, consensus_hash)}}

\* ------------------------------------------------------------------------
\* The test peer that builds the chain (chainstate/nakamoto/tests/node.rs)

\* A variant of begin_nakamoto_tenure that takes every previous tenure to
\* hold one block, as an epoch 2.x tenure does.
begin_nakamoto_tenure_one_block(cs, tip, tenure_change_cause) ==
    [tenure_consensus_hash |-> 0,
     prev_tenure_consensus_hash |-> cs.blocks[tip].header.consensus_hash,
     burn_view_consensus_hash |-> 0,
     previous_tenure_end |-> tip,
     previous_tenure_blocks |-> 1,
     cause |-> tenure_change_cause]

\* TestStacksNode::begin_nakamoto_tenure: the tenure-change that points at
\* the canonical tip as the end of the previous tenure. The two consensus
\* hashes left at zero are overwritten by the caller.
begin_nakamoto_tenure(cs, tip, tenure_change_cause) ==
    [tenure_consensus_hash |-> 0,
     prev_tenure_consensus_hash |-> cs.blocks[tip].header.consensus_hash,
     burn_view_consensus_hash |-> 0,
     previous_tenure_end |-> tip,
     previous_tenure_blocks |-> get_nakamoto_tenure_length(cs, tip),
     cause |-> tenure_change_cause]

\* TenureChangePayload::extend: the payload that extends the tenure of
\* `tenure_change` under a new burn view.
extend(tenure_change, burn_view_consensus_hash, last_tenure_block_id, num_blocks_so_far) ==
    [tenure_consensus_hash |-> tenure_change.tenure_consensus_hash,
     prev_tenure_consensus_hash |-> tenure_change.tenure_consensus_hash,
     burn_view_consensus_hash |-> burn_view_consensus_hash,
     previous_tenure_end |-> last_tenure_block_id,
     previous_tenure_blocks |-> num_blocks_so_far,
     cause |-> "Extended"]

\* The parent a block of make_nakamoto_tenure_blocks is built on: the block
\* its tenure-change names, if the chainstate has it, and the canonical tip
\* otherwise.
parent_tip(cs, tip, tenure_change) ==
    IF tenure_change # NoTenure
       /\ Some(tenure_change).previous_tenure_end \in DOMAIN cs.blocks
    THEN Some(tenure_change).previous_tenure_end
    ELSE tip

\* A variant of the block builder that stays in the tenure of the parent.
make_nakamoto_block_in_parent_tenure(cs, tip, tenure_id_consensus_hash, tenure_change) ==
    LET parent_id == parent_tip(cs, tip, tenure_change)
    IN  [header |-> [version |-> 0,
                     chain_length |-> cs.blocks[parent_id].header.chain_length + 1,
                     consensus_hash |-> cs.blocks[parent_id].header.consensus_hash,
                     parent_block_id |-> parent_id],
         tenure_tx |-> tenure_change]

\* A variant of the block builder that leaves the tenure-change out of the
\* block.
make_nakamoto_block_without_tenure_change(cs, tip, tenure_id_consensus_hash, tenure_change) ==
    [header |-> [version |-> 0,
                 chain_length |-> cs.blocks[tip].header.chain_length + 1,
                 consensus_hash |-> tenure_id_consensus_hash,
                 parent_block_id |-> tip],
     tenure_tx |-> NoTenure]

\* One block of make_nakamoto_tenure_blocks: built on its parent, in the
\* tenure the caller names, with the tenure-change if it is the first.
make_nakamoto_block(cs, tip, tenure_id_consensus_hash, tenure_change) ==
    LET parent_id == parent_tip(cs, tip, tenure_change)
    IN  [header |-> [version |-> 0,
                     chain_length |-> cs.blocks[parent_id].header.chain_length + 1,
                     consensus_hash |-> tenure_id_consensus_hash,
                     parent_block_id |-> parent_id],
         tenure_tx |-> tenure_change]

\* The loop of make_nakamoto_tenure_blocks that processes a block and then
\* its malleablized copies, each with a higher version and fewer signatures,
\* for as long as `sigs` more of them carry enough signatures and the node
\* accepts them. acc is [cs, made, processed].
RECURSIVE process_malleablized(_, _, _, _)
process_malleablized(acc, sdb, block_to_store, sigs) ==
    IF sigs = 0 THEN acc
    ELSE LET r == process_new_nakamoto_block(acc.cs, sdb, block_to_store)
             tried == [acc EXCEPT !.made = @ \cup {block_to_store}]
         IN  IF ~r.accepted THEN tried
             ELSE process_malleablized(
                      [tried EXCEPT !.cs = r.cs,
                                    !.processed = @ \cup {Len(r.cs.blocks)}],
                      sdb,
                      [block_to_store EXCEPT !.header.version = @ + 1],
                      sigs - 1)

\* The five tenure-changes check_processed_nakamoto_block derives from a
\* valid one, each with one identifying field altered: a consensus hash
\* becomes that of the sortition before the previous tenure's, the previous
\* tenure end a block hash that is no block id, the block count u32::MAX
\* (here one more than a chainstate can hold).
bad_tenure_txs(tenure_tx) ==
    LET invalid_tenure_sn == tenure_tx.prev_tenure_consensus_hash - 1
    IN  {[tenure_tx EXCEPT !.tenure_consensus_hash = invalid_tenure_sn],
         [tenure_tx EXCEPT !.prev_tenure_consensus_hash = invalid_tenure_sn],
         [tenure_tx EXCEPT !.burn_view_consensus_hash = invalid_tenure_sn],
         [tenure_tx EXCEPT !.previous_tenure_end = 0 - 1],
         [tenure_tx EXCEPT !.previous_tenure_blocks = MaxBlocks + 1]}

\* The chain after the first Nakamoto tenure of one block, which follows the
\* last epoch 2.x tenure.
FirstTenureChange ==
    [tenure_consensus_hash |-> 2,
     prev_tenure_consensus_hash |-> 1,
     burn_view_consensus_hash |-> 2,
     previous_tenure_end |-> Epoch2Tip,
     previous_tenure_blocks |-> 1,
     cause |-> "BlockFound"]

FirstBlock ==
    [header |-> [version |-> 0, chain_length |-> 1, consensus_hash |-> 2,
                 parent_block_id |-> Epoch2Tip],
     tenure_tx |-> {FirstTenureChange}]

ChainInit ==
    /\ sortdb = <<[sortition |-> TRUE, parent_tenure_id |-> 0],
                  [sortition |-> TRUE, parent_tenure_id |-> 1]>>
    /\ chainstate =
           [blocks |-> <<FirstBlock>>,
            tenures |-> (1 :> new_tenure([blocks |-> <<>>, tenures |-> <<>>],
                                         1, FirstBlock.header, FirstTenureChange)),
            vrf_proofs |-> (1 :> Some(coinbase_vrf_proof(FirstBlock)))]
    /\ stacks_tip = 1
    /\ last_tenure_change = FirstTenureChange
    /\ blocks_since_last_tenure = 1
    /\ last_block = 1
    /\ made_blocks = {}
    /\ processed_blocks = {}

\* ------------------------------------------------------------------------
\* The proposal validation view of a signer

\* SortitionsView::fetch_view: the latest burn block, and the latest
\* sortition with a winner together with the tenure its winner builds on.
fetch_view(sdb) ==
    LET winners == {h \in DOMAIN sdb : sdb[h].sortition}
        cur == CHOOSE h \in winners : \A g \in winners : g <= h
    IN  [latest_consensus_hash |-> Len(sdb),
         cur_sortition |-> [consensus_hash |-> cur,
                            parent_tenure_id |-> sdb[cur].parent_tenure_id,
                            prior_sortition |-> cur - 1]]

\* SignerDb::insert_block of a block the signer signed.
insert_block(db, block_id, block) ==
    db \cup {[block_id |-> block_id, block |-> block, signed_over |-> TRUE]}

\* The BlockInfo of the blocks the signer has endorsed.
signed_over(db) == {info \in db : info.signed_over}

\* A sibling of a block: the same parent, different content.
is_sibling(block, other) ==
    /\ other.header.parent_block_id = block.header.parent_block_id
    /\ other # block

\* The endorsed blocks of a tenure that no other endorsed block of that
\* tenure is above.
last_signed_in_tenure(db, tenure) ==
    LET signed == {info \in signed_over(db) :
                      info.block.header.consensus_hash = tenure}
    IN  {info \in signed :
            \A other \in signed :
                other.block.header.chain_length <= info.block.header.chain_length}

\* A variant of the proposal check without the rule on siblings.
check_proposal_without_sibling_rule(view, db, block) ==
    /\ block.header.consensus_hash = view.cur_sortition.consensus_hash
    /\ \A tenure_change \in get_tenure_change_tx_payload(block) :
           /\ ~\E info \in signed_over(db) :
                  /\ info.block.header.consensus_hash = block.header.consensus_hash
                  /\ info.block # block
           /\ \A info \in last_signed_in_tenure(db,
                              tenure_change.prev_tenure_consensus_hash) :
                  block.header.parent_block_id = info.block_id
           /\ tenure_change.prev_tenure_consensus_hash
                  = view.cur_sortition.parent_tenure_id

\* A variant of the proposal check that does not ask which tenure the block
\* belongs to.
check_proposal_any_tenure(view, db, block) ==
    /\ ~\E info \in signed_over(db) : is_sibling(block, info.block)
    /\ \A tenure_change \in get_tenure_change_tx_payload(block) :
           /\ ~\E info \in signed_over(db) :
                  /\ info.block.header.consensus_hash = block.header.consensus_hash
                  /\ info.block # block
           /\ \A info \in last_signed_in_tenure(db,
                              tenure_change.prev_tenure_consensus_hash) :
                  block.header.parent_block_id = info.block_id
           /\ tenure_change.prev_tenure_consensus_hash
                  = view.cur_sortition.parent_tenure_id

\* A variant of the proposal check that lets a tenure start again after
\* blocks of it were endorsed.
check_proposal_without_lineage_rule(view, db, block) ==
    /\ block.header.consensus_hash = view.cur_sortition.consensus_hash
    /\ ~\E info \in signed_over(db) : is_sibling(block, info.block)
    /\ \A tenure_change \in get_tenure_change_tx_payload(block) :
           /\ \A info \in last_signed_in_tenure(db,
                              tenure_change.prev_tenure_consensus_hash) :
                  block.header.parent_block_id = info.block_id
           /\ tenure_change.prev_tenure_consensus_hash
                  = view.cur_sortition.parent_tenure_id

\* A variant of the proposal check that does not ask the new tenure to
\* confirm the endorsed blocks of its parent tenure.
check_proposal_without_confirm_rule(view, db, block) ==
    /\ block.header.consensus_hash = view.cur_sortition.consensus_hash
    /\ ~\E info \in signed_over(db) : is_sibling(block, info.block)
    /\ \A tenure_change \in get_tenure_change_tx_payload(block) :
           /\ ~\E info \in signed_over(db) :
                  /\ info.block.header.consensus_hash = block.header.consensus_hash
                  /\ info.block # block
           /\ tenure_change.prev_tenure_consensus_hash
                  = view.cur_sortition.parent_tenure_id

\* A variant of the proposal check that accepts any declared parent tenure.
check_proposal_any_parent_tenure(view, db, block) ==
    /\ block.header.consensus_hash = view.cur_sortition.consensus_hash
    /\ ~\E info \in signed_over(db) : is_sibling(block, info.block)
    /\ \A tenure_change \in get_tenure_change_tx_payload(block) :
           /\ ~\E info \in signed_over(db) :
                  /\ info.block.header.consensus_hash = block.header.consensus_hash
                  /\ info.block # block
           /\ \A info \in last_signed_in_tenure(db,
                              tenure_change.prev_tenure_consensus_hash) :
                  block.header.parent_block_id = info.block_id

\* SortitionsView::check_proposal: whether the signer may sign the block.
check_proposal(view, db, block) ==
    \* the block belongs to the tenure of the view's current sortition
    /\ block.header.consensus_hash = view.cur_sortition.consensus_hash
    \* it is no sibling of an endorsed block
    /\ ~\E info \in signed_over(db) : is_sibling(block, info.block)
    /\ \A tenure_change \in get_tenure_change_tx_payload(block) :
           \* no other block of its tenure is endorsed
           /\ ~\E info \in signed_over(db) :
                  /\ info.block.header.consensus_hash = block.header.consensus_hash
                  /\ info.block # block
           \* it confirms every endorsed block of the parent tenure
           /\ \A info \in last_signed_in_tenure(db,
                              tenure_change.prev_tenure_consensus_hash) :
                  block.header.parent_block_id = info.block_id
           \* the parent tenure is the one the winner builds on
           /\ tenure_change.prev_tenure_consensus_hash
                  = view.cur_sortition.parent_tenure_id

\* The block signer_chainstate proposes as a sibling of an approved block: a
\* block of the last tenure, on its first block, at that block's height.
sibling_block(last_tenure_id, last_tenure) ==
    [header |-> [version |-> 1,
                 chain_length |-> last_tenure.header.chain_length,
                 consensus_hash |-> last_tenure.header.consensus_hash,
                 parent_block_id |-> last_tenure_id],
     tenure_tx |-> NoTenure]

\* The block signer_chainstate proposes with the tenure-change of the last
\* tenure's first block, on that block's parent.
lineage_block(last_tenure) ==
    [header |-> [version |-> 1,
                 chain_length |-> last_tenure.header.chain_length,
                 consensus_hash |-> last_tenure.header.consensus_hash,
                 parent_block_id |-> last_tenure.header.parent_block_id],
     tenure_tx |-> get_tenure_change_tx_payload(last_tenure)]

\* The block signer_chainstate proposes to start the tenure `consensus_hash`
\* on the block reorg_to_id, declaring prev_tenure as its parent tenure.
reorg_block(cs, consensus_hash, reorg_to_id, prev_tenure) ==
    [header |-> [version |-> 1,
                 chain_length |->
                     IF reorg_to_id \in DOMAIN cs.blocks
                     THEN cs.blocks[reorg_to_id].header.chain_length + 1
                     ELSE 1,
                 consensus_hash |-> consensus_hash,
                 parent_block_id |-> reorg_to_id],
     tenure_tx |-> {[tenure_consensus_hash |-> consensus_hash,
                     prev_tenure_consensus_hash |-> prev_tenure,
                     burn_view_consensus_hash |-> consensus_hash,
                     previous_tenure_end |-> reorg_to_id,
                     previous_tenure_blocks |-> 1,
                     cause |-> "BlockFound"]}]

NotChecked == [case |-> "none", block |-> FirstBlock, valid |-> FALSE]

SignerInit ==
    /\ signer_db = {}
    /\ sortitions_view = [latest_consensus_hash |-> 2,
                          cur_sortition |-> [consensus_hash |-> 2,
                                             parent_tenure_id |-> 1,
                                             prior_sortition |-> 1]]
    /\ last_tenures_proposals = {}
    /\ checked = NotChecked

\* ------------------------------------------------------------------------
\* The reward-cycle signer resolver (RunLoop::get_stacks_node_info in full)

\* The address of the local signer, StacksClient::get_signer_address.
LocalAddr == 1

Addresses == {LocalAddr, 2, 3}

\* Option<Vec<NakamotoSignerEntry>>::None: a reward set without signers.
NoSigners == {}

\* Iterator::position: the zero-based index of the first element equal to
\* x, as a set of at most one index.
position(list, x) ==
    {i - 1 : i \in {j \in DOMAIN list :
                      /\ list[j] = x
                      /\ \A k \in 1..(j - 1) : list[k] # x}}

\* A variant of the loop that gives every entry one key id.
RECURSIVE assign_one_key_each(_, _, _, _)
assign_one_key_each(acc, reward_set_signers, i, current_addr) ==
    IF i > Len(reward_set_signers) THEN acc
    ELSE LET entry == reward_set_signers[i]
             signer_id == i - 1
         IN  assign_one_key_each(
                 [weight_end |-> acc.weight_end + 1,
                  signer_key_ids |->
                      (signer_id :> {acc.weight_end}) @@ acc.signer_key_ids,
                  key_ids |->
                      (acc.weight_end :> entry.address) @@ acc.key_ids,
                  signer_addresses |-> acc.signer_addresses \cup {entry.address},
                  current_signer_id |->
                      IF entry.address = current_addr THEN {signer_id}
                      ELSE acc.current_signer_id],
                 reward_set_signers, i + 1, current_addr)

\* The loop of lines 132-160 over the reward-set entries from the i-th on.
\* acc is [weight_end, signer_key_ids, key_ids, signer_addresses,
\* current_signer_id]; signer ids count from zero, key ids from weight_end.
RECURSIVE assign_key_ids(_, _, _, _)
assign_key_ids(acc, reward_set_signers, i, current_addr) ==
    IF i > Len(reward_set_signers) THEN acc
    ELSE LET entry == reward_set_signers[i]
             signer_id == i - 1
             weight_start == acc.weight_end
             weight_end == weight_start + entry.slots
             key_range == weight_start..(weight_end - 1)
         IN  assign_key_ids(
                 [weight_end |-> weight_end,
                  signer_key_ids |->
                      IF key_range = {} THEN acc.signer_key_ids
                      ELSE (signer_id :> key_range) @@ acc.signer_key_ids,
                  key_ids |->
                      [key_id \in key_range |-> entry.address] @@ acc.key_ids,
                  signer_addresses |-> acc.signer_addresses \cup {entry.address},
                  current_signer_id |->
                      IF entry.address = current_addr THEN {signer_id}
                      ELSE acc.current_signer_id],
                 reward_set_signers, i + 1, current_addr)

\* A variant of the error that is a permanent backoff error.
ResolveErrPermanent(e) == [kind |-> "Err", err |-> e, transient |-> FALSE]

\* Result<Option<StacksNodeInfo>, backoff::Error<ClientError>>: every error
\* of the resolver is made with backoff::Error::transient, or converted by
\* `?`, which makes a transient error too.
ResolveErr(e) == [kind |-> "Err", err |-> e, transient |-> TRUE]

\* Whether retry_with_exponential_backoff runs its closure again after the
\* closure has returned `result`: it retries transient errors only.
Retried(result) == result.kind = "Err" /\ result.transient

ResolveNone == [kind |-> "None"]

ResolveSome(info) == [kind |-> "Some", info |-> info]

\* A variant of the resolved info that takes the slot id for the signer id.
stacks_node_info_slot_as_id(this, reward_cycle, signer_id, signer_slot_id, r) ==
    [reward_cycle |-> reward_cycle,
     signer_id |-> signer_slot_id,
     signer_slot_id |-> signer_slot_id,
     signer_set |-> reward_cycle % 2,
     signer_addresses |-> r.signer_addresses,
     signer_key_ids |-> r.signer_key_ids,
     public_keys |-> [signers |-> <<>>, key_ids |-> r.key_ids]]

\* A variant of the resolved info that counts the signer id from the number
\* of machines the run loop holds.
stacks_node_info_by_machines(this, reward_cycle, signer_id, signer_slot_id, r) ==
    [reward_cycle |-> reward_cycle,
     signer_id |-> signer_id + Cardinality(this.stacks_signers),
     signer_slot_id |-> signer_slot_id,
     signer_set |-> reward_cycle % 2,
     signer_addresses |-> r.signer_addresses,
     signer_key_ids |-> r.signer_key_ids,
     public_keys |-> [signers |-> <<>>, key_ids |-> r.key_ids]]

\* The StacksNodeInfo of lines 165-173, from what the loop r has gathered.
\* Nothing of the run loop but its client and its configuration enters it;
\* public_keys.signers is allocated and left empty.
stacks_node_info(this, reward_cycle, signer_id, signer_slot_id, r) ==
    [reward_cycle |-> reward_cycle,
     signer_id |-> signer_id,
     signer_slot_id |-> signer_slot_id,
     signer_set |-> reward_cycle % 2,
     signer_addresses |-> r.signer_addresses,
     signer_key_ids |-> r.signer_key_ids,
     public_keys |-> [signers |-> <<>>, key_ids |-> r.key_ids]]

\* RunLoop::get_stacks_node_info. this is the run loop (its client, its
\* map of machines), fault names the step that fails: "none", a client call
\* ("calculated", "slots", "reward_set") or "key", a signing key of the
\* reward set that is no public key.
resolve_stacks_node_info(this, reward_cycle, fault) ==
    LET stacks_client == this.stacks_client
        current_addr == LocalAddr
        signer_set == reward_cycle % 2
        slot_position == position(stacks_client.slots[signer_set], current_addr)
        r == assign_key_ids([weight_end |-> 1,
                             signer_key_ids |-> <<>>,
                             key_ids |-> <<>>,
                             signer_addresses |-> {},
                             current_signer_id |-> {}],
                            Some(stacks_client.signers), 1, current_addr)
    IN  IF fault = "calculated" THEN ResolveErr("ClientError")
        ELSE IF ~stacks_client.calculated
            THEN ResolveErr("RewardSetNotYetCalculated")
        ELSE IF fault = "slots" THEN ResolveErr("ClientError")
        ELSE IF slot_position = {} THEN ResolveNone
        ELSE IF fault = "reward_set" THEN ResolveErr("ClientError")
        ELSE IF stacks_client.signers = NoSigners THEN ResolveNone
        ELSE IF fault = "key" /\ Some(stacks_client.signers) # <<>>
            THEN ResolveErr("CorruptedRewardSet")
        ELSE IF r.current_signer_id = {} THEN ResolveNone
        ELSE ResolveSome(stacks_node_info(this, reward_cycle,
                                          Some(r.current_signer_id),
                                          Some(slot_position), r))

\* The lists of distinct addresses that may hold the slots of a signer set.
SlotLists ==
    UNION {{l \in [1..n -> Addresses] :
               \A i, j \in 1..n : l[i] = l[j] => i = j} : n \in 0..MaxSigners}

\* The reward sets a cycle may have: none, or a list of entries of distinct
\* signers, each with its number of slots.
RewardSets ==
    {NoSigners}
    \cup {{l} : l \in UNION {{e \in [1..n -> [address : Addresses,
                                                slots : 1..MaxWeight]] :
                                  \A i, j \in 1..n :
                                      e[i].address = e[j].address => i = j} :
                              n \in 0..MaxSigners}}

\* The committee of the scenario: ten signers of one slot each, the local
\* signer among them.
TenSigners ==
    [calculated |-> TRUE,
     slots |-> [set \in 0..1 |-> [i \in 1..10 |-> i]],
     signers |-> {[i \in 1..10 |-> [address |-> 11 - i, slots |-> 1]]}]

\* What a node may report of a reward cycle: before the reward set is
\* calculated there are no signers; the slots of the other signer set are
\* those of another committee.
Nodes(reward_cycle) ==
    {TenSigners}
    \cup {n \in {[calculated |-> calculated,
                   slots |-> [set \in 0..1 |-> IF set = reward_cycle % 2
                                               THEN slots ELSE other],
                   signers |-> signers] :
                      calculated \in BOOLEAN, slots \in SlotLists,
                      other \in {<<>>, <<LocalAddr>>},
                      signers \in RewardSets} :
              n.calculated \/ n.signers = NoSigners}

\* No call has been made.
NotResolved ==
    [fault |-> "none", again |-> FALSE, result |-> [kind |-> "NotCalled"]]

\* A resolver that is never called, for the runs of the other components.
ResolverIdle ==
    /\ resolve_cycle = 0
    /\ node = [calculated |-> FALSE, slots |-> [set \in 0..1 |-> <<>>],
               signers |-> NoSigners]
    /\ resolved = NotResolved
    /\ resolved_infos = {}

\* A run loop as constructed, about to resolve some reward cycle on a node
\* in some state.
ResolverInit ==
    /\ resolve_cycle \in 0..MaxCycle
    /\ node \in Nodes(resolve_cycle)
    /\ resolved = NotResolved
    /\ resolved_infos = {}

\* ------------------------------------------------------------------------
\* The boot run loop (run_loop/boot_nakamoto.rs)

\* BootRunLoop::get_burn_height: the height of the canonical burnchain tip,
\* and 0 when the sortition database is missing or cannot be read.
get_burn_height(db_ok, height) == IF db_ok THEN height ELSE 0

\* The largest u64, for which the largest integer of the checker stands.
U64Max == 2147483647

\* a - b on u64 in a build without overflow checks: it wraps around.
wrapping_sub(a, b) == IF a >= b THEN a - b ELSE U64Max - (b - a) + 1

\* A variant of the transition test that holds one burn block early.
reached_one_block_early(height, start_height) ==
    height >= wrapping_sub(start_height, 2)

\* BootRunLoop::reached_epoch_30_transition: burn_height >= start_height - 1
\* on u64. With overflow checks the subtraction panics for start height 0,
\* in BootRunLoop::new already, and there is no boot run loop.
reached_epoch_30_transition(height, start_height) ==
    height >= wrapping_sub(start_height, 1)

\* The record of a test for the transition.
TransitionCheck(db_ok, height, start_height) ==
    [burn_height |-> height, db_ok |-> db_ok,
     do_transition |->
         reached_epoch_30_transition(get_burn_height(db_ok, height), start_height)]

\* BootRunLoop::new: the neon run loop unless the epoch 3.0 transition is
\* already reached.
new_active_loop(db_ok, height, start_height) ==
    IF ~reached_epoch_30_transition(get_burn_height(db_ok, height), start_height)
    THEN "Epoch2"
    ELSE "Epoch3"

\* BootRunLoop::new: the coordinator channels behind the shared mutex are
\* those of the run loop constructed.
new_coordinator_channels(loop) == IF loop = "Epoch2" THEN "neon" ELSE "naka"

\* NakaRunLoop::new: the run loop observes the termination switch it is
\* given, and one of its own when it is given none.
naka_should_keep_running(should_keep_running) ==
    IF should_keep_running = {} THEN "new" ELSE Some(should_keep_running)

\* BootRunLoop::new constructs the Nakamoto run loop without a switch, and
\* get_termination_switch then gives out that run loop's own.
new_naka_switch(loop) ==
    IF loop = "Epoch2" THEN "none" ELSE "obtained"

\* A variant of start_from_neon that gives the Nakamoto run loop no switch.
no_switch_for_naka == {}

\* The switch start_from_neon gives the Nakamoto run loop: the one it took
\* from the neon run loop, which is the one get_termination_switch gave out.
switch_for_naka == {"obtained"}

\* A boot run loop constructed on an empty burnchain and never started, for
\* the runs that are not about it.
BootIdle ==
    /\ epoch_3_start_height = MaxBurn
    /\ burn_height = 0
    /\ active_loop = new_active_loop(TRUE, 0, MaxBurn)
    /\ transition_check = TransitionCheck(TRUE, 0, MaxBurn)
    /\ termination_switch = TRUE
    /\ neon_running = FALSE
    /\ naka_running = FALSE
    /\ neon_starts = 0
    /\ naka_starts = 0
    /\ boot_pc = "new"
    /\ stopper_pc = "unspawned"
    /\ exited_for_transition = FALSE
    /\ coord_channel = new_coordinator_channels(active_loop)
    /\ naka_switch = new_naka_switch(active_loop)
    /\ stop_requested = "no"

\* ------------------------------------------------------------------------
\* The tenures a TestStacksNode records (chainstate/nakamoto/tests/node.rs)

\* TestStacksNode::add_nakamoto_tenure_blocks: the blocks are a new tenure,
\* or replace the last tenure if they start with its consensus hash. The
\* first block of the last tenure is unwrapped, which panics if that tenure
\* was recorded without blocks.
add_nakamoto_tenure_blocks(recorded, tenure_blocks) ==
    IF recorded # <<>> /\ tenure_blocks # <<>>
    THEN IF recorded[Len(recorded)] = <<>>
         THEN [panic |-> TRUE, nakamoto_blocks |-> recorded]
         ELSE IF recorded[Len(recorded)][1].consensus_hash
                     = tenure_blocks[1].consensus_hash
         THEN [panic |-> FALSE,
               nakamoto_blocks |->
                   [recorded EXCEPT ![Len(recorded)] = tenure_blocks]]
         ELSE [panic |-> FALSE, nakamoto_blocks |-> Append(recorded, tenure_blocks)]
    ELSE [panic |-> FALSE, nakamoto_blocks |-> Append(recorded, tenure_blocks)]

\* A variant of add_nakamoto_extended_blocks that records the blocks as a
\* tenure when there is none to extend.
add_extended_or_new(recorded, tenure_blocks) ==
    IF recorded # <<>>
    THEN [panic |-> FALSE,
          nakamoto_blocks |->
              [recorded EXCEPT ![Len(recorded)] = @ \o tenure_blocks]]
    ELSE [panic |-> FALSE, nakamoto_blocks |-> <<tenure_blocks>>]

\* TestStacksNode::add_nakamoto_extended_blocks: the blocks are appended to
\* the last tenure; without a tenure the call panics.
add_nakamoto_extended_blocks(recorded, tenure_blocks) ==
    IF recorded # <<>>
    THEN [panic |-> FALSE,
          nakamoto_blocks |->
              [recorded EXCEPT ![Len(recorded)] = @ \o tenure_blocks]]
    ELSE [panic |-> TRUE, nakamoto_blocks |-> recorded]

\* The node of a peer whose boot plan is not followed call by call.
NodeIdle ==
    /\ nakamoto_blocks = <<>>
    /\ node_op = "none"
    /\ node_panic = FALSE

\* ------------------------------------------------------------------------
\* The get-signer endpoint (net/api/getsigner.rs)

\* The secp256k1 public keys of the runs: a point, given by x and the parity
\* of y, and whether the key serializes compressed.
PublicKeys ==
    [x : 1..MaxSigners, odd : BOOLEAN, compressed : BOOLEAN]

\* The y of the point with that x and parity.
point_y(x, odd) == 2 * x + (IF odd THEN 1 ELSE 0)

\* Secp256k1PublicKey::to_hex: the serialized key, a prefix byte and one
\* 32-byte coordinate if compressed, two if not.
to_hex(pubkey) ==
    IF pubkey.compressed
    THEN <<(IF pubkey.odd THEN 3 ELSE 2), pubkey.x>>
    ELSE <<4, pubkey.x, point_y(pubkey.x, pubkey.odd)>>

\* The number of hex characters of a serialized key.
hex_len(hex) == 2 * (1 + 32 * (Len(hex) - 1))

\* Secp256k1PublicKey::from_hex
from_hex(hex) ==
    IF Len(hex) = 2
    THEN [x |-> hex[2], odd |-> hex[1] = 3, compressed |-> TRUE]
    ELSE [x |-> hex[2], odd |-> hex[3] % 2 = 1, compressed |-> FALSE]

\* The decimal digits of a u64, as format! writes them.
RECURSIVE to_decimal(_)
to_decimal(n) ==
    IF n < 10 THEN <<n>> ELSE Append(to_decimal(n \div 10), n % 10)

\* u64::from_str_radix(_, 10)
RECURSIVE from_str_radix(_)
from_str_radix(digits) ==
    IF digits = <<>> THEN 0
    ELSE 10 * from_str_radix(SubSeq(digits, 1, Len(digits) - 1))
         + digits[Len(digits)]

\* StacksHttpRequest::new_getsigner: the path of the request.
new_getsigner(signer_pubkey, cycle_num) ==
    [prefix |-> <<"v3", "signer">>,
     signer_pubkey |-> to_hex(signer_pubkey),
     cycle_num |-> to_decimal(cycle_num)]

\* GetSignerRequestHandler::path_regex matches the path.
path_regex(path) ==
    /\ path.prefix = <<"v3", "stacker_set">>
    /\ hex_len(path.signer_pubkey) = 66
    /\ Len(path.cycle_num) \in 1..10

\* GetSignerRequestHandler::restart
restart == [signer_pubkey |-> {}, reward_cycle |-> {}]

\* GetSignerRequestHandler::try_parse_request on the captures of a path
\* that matched.
try_parse_request(path) ==
    [signer_pubkey |-> {from_hex(path.signer_pubkey)},
     reward_cycle |-> {from_str_radix(path.cycle_num)}]

\* A node that has been sent no get-signer request.
HttpIdle ==
    /\ getsigner_request = {}
    /\ getsigner_handler = restart
    /\ getsigner_decoded = "none"

\* ------------------------------------------------------------------------
\* Initial state and actions

EmptyMap == [x \in {} |-> None]

NoPass ==
    [kind |-> "none", refresh_ok |-> FALSE, cmd |-> NoCmd,
     refreshed |-> EmptyMap, routed |-> EmptyMap, processed |-> EmptyMap,
     delivered |-> {}, errored |-> {}, ran |-> {}]

\* impl From<Config> for RunLoop, on a node at any reward cycle.
Init ==
    /\ chain_cycle = 0
    /\ calc_next = FALSE
    /\ reg_cur \in BOOLEAN
    /\ reg_next = FALSE
    /\ stacks_signers = EmptyMap
    /\ state = "Uninitialized"
    /\ pc = "idle"
    /\ event = None
    /\ cmd = NoCmd
    /\ refresh_ok = FALSE
    /\ next_id = 1
    /\ last = NoPass
    /\ begun = {}
    /\ dropped = {}
    /\ dkg_calls = Unlogged
    /\ ChainInit
    /\ SignerInit
    /\ BootIdle
    /\ NodeIdle
    /\ HttpIdle
    /\ ResolverIdle

\* The prepare phase calculates the next cycle's reward set.
CalculateRewardSet ==
    /\ ~calc_next
    /\ calc_next' = TRUE
    /\ reg_next' \in BOOLEAN
    /\ UNCHANGED <<chain_cycle, reg_cur, stacks_signers, state, pc, event,
                   cmd, refresh_ok, next_id, last, begun, dropped, dkg_calls>>
    /\ UNCHANGED <<chain_vars, signer_vars, resolver_vars, boot_vars, node_vars, http_vars>>

\* The burnchain reaches the next reward cycle.
AdvanceCycle ==
    /\ calc_next
    /\ chain_cycle < MaxCycle
    /\ chain_cycle' = chain_cycle + 1
    /\ calc_next' = FALSE
    /\ reg_cur' = reg_next
    /\ reg_next' = FALSE
    /\ UNCHANGED <<stacks_signers, state, pc, event, cmd, refresh_ok,
                   next_id, last, begun, dropped, dkg_calls>>
    /\ UNCHANGED <<chain_vars, signer_vars, resolver_vars, boot_vars, node_vars, http_vars>>

\* run_one_pass is entered with an event (or a timeout) and at most one
\* operator command.
BeginPass ==
    /\ pc = "idle"
    /\ \E ev \in {None, "event"} : event' = ev
    /\ \/ cmd' = NoCmd /\ next_id' = next_id
       \/ /\ next_id <= MaxCmds
          /\ \E rc \in Cycles : cmd' = {[reward_cycle |-> rc, id |-> next_id]}
          /\ next_id' = next_id + 1
    /\ pc' = "refresh"
    /\ refresh_ok' = FALSE
    /\ last' = NoPass
    /\ dkg_calls' = [NoDkgCalls EXCEPT !.logged = dkg_calls.logged]
    /\ UNCHANGED <<chain_cycle, calc_next, reg_cur, reg_next, stacks_signers,
                   state, begun, dropped>>
    /\ UNCHANGED <<chain_vars, signer_vars, resolver_vars, boot_vars, node_vars, http_vars>>

\* One run of the closure that retry_with_exponential_backoff retries. An
\* attempt that fails is retried unless the backoff policy gives up; when it
\* gives up in state Uninitialized the pass returns at once (lines 270-279).
\* The update_dkg calls of the pass are kept in dkg_calls in the runs that
\* log them; the other runs take DKG to be needed for every cycle.
RefreshAttempt ==
    /\ pc = "refresh"
    /\ \E fail_at \in {"none", "cycle", "cur", "next"} :
       LET keys == DOMAIN AfterConfig(stacks_signers, fail_at)
           found == IF dkg_calls.logged THEN DkgRounds
                    ELSE DkgRounds \ {"not_needed"}
       IN  \E order \in Orders(keys), rounds \in [keys -> found] :
           LET r == RefreshClosure(stacks_signers, state, fail_at, order, rounds)
               calls == IF dkg_calls.logged
                        THEN [logged |-> TRUE,
                              called |-> dkg_calls.called \cup r.calls.called,
                              errored |-> r.calls.errored,
                              drove |-> r.calls.drove,
                              not_needed |-> r.calls.not_needed]
                        ELSE Unlogged
           IN  /\ stacks_signers' = r.signers
               /\ state' = r.state
               /\ refresh_ok' = r.ok
               /\ \/ /\ r.ok
                     /\ pc' = "process"
                     /\ dkg_calls' = calls
                     /\ UNCHANGED <<last, event, cmd>>
                  \/ /\ ~r.ok  \* retried
                     /\ pc' = "refresh"
                     /\ dkg_calls' = calls
                     /\ UNCHANGED <<last, event, cmd>>
                  \/ /\ ~r.ok  \* the retry policy gives up
                     /\ IF OnRefreshError(r.state) = "return"
                        THEN /\ pc' = "idle"
                             /\ dkg_calls' = [NoDkgCalls EXCEPT
                                                  !.logged = dkg_calls.logged]
                             /\ last' = [NoPass EXCEPT !.kind = "returned",
                                             !.cmd = cmd,
                                             !.refreshed = r.signers,
                                             !.routed = r.signers,
                                             !.processed = r.signers]
                             /\ event' = None
                             /\ cmd' = NoCmd
                        ELSE /\ pc' = "process"
                             /\ dkg_calls' = calls
                             /\ UNCHANGED <<last, event, cmd>>
    /\ UNCHANGED <<chain_cycle, calc_next, reg_cur, reg_next, next_id, begun,
                   dropped>>
    /\ UNCHANGED <<chain_vars, signer_vars, resolver_vars, boot_vars, node_vars, http_vars>>

\* The rest of run_one_pass (lines 280-308): route the command, deliver the
\* event and run the next command on every machine, clean up.
ProcessPass ==
    /\ pc = "process"
    /\ LET routed == RouteCommand(stacks_signers, cmd)
           keys == DOMAIN routed
       IN  \E order \in Orders(keys), outcomes \in [keys -> {"err", "ok", "done"}] :
           LET d == DeliverLoop([signers |-> routed, delivered |-> {},
                                 errored |-> {}, ran |-> {}, begun |-> {}],
                                order, 1, outcomes)
           IN  /\ stacks_signers' = cleanup_stale_signers(d.signers)
               /\ begun' = begun \cup d.begun
               /\ dropped' = dropped \cup DroppedBy(d.signers)
               /\ last' = [kind |-> "processed", refresh_ok |-> refresh_ok,
                           cmd |-> cmd,
                           refreshed |-> stacks_signers, routed |-> routed,
                           processed |-> d.signers, delivered |-> d.delivered,
                           errored |-> d.errored, ran |-> d.ran]
    /\ pc' = "idle"
    /\ event' = None
    /\ cmd' = NoCmd
    /\ dkg_calls' = [NoDkgCalls EXCEPT !.logged = dkg_calls.logged]
    /\ UNCHANGED <<chain_cycle, calc_next, reg_cur, reg_next, state,
                   refresh_ok, next_id>>
    /\ UNCHANGED <<chain_vars, signer_vars, resolver_vars, boot_vars, node_vars, http_vars>>

Next ==
    \/ CalculateRewardSet
    \/ AdvanceCycle
    \/ BeginPass
    \/ RefreshAttempt
    \/ ProcessPass

Spec == Init /\ [][Next]_vars

\* A run loop as constructed whose update_dkg calls are logged.
InitCycle ==
    /\ chain_cycle = 0
    /\ calc_next = FALSE
    /\ reg_cur \in BOOLEAN
    /\ reg_next = FALSE
    /\ stacks_signers = EmptyMap
    /\ state = "Uninitialized"
    /\ pc = "idle"
    /\ event = None
    /\ cmd = NoCmd
    /\ refresh_ok = FALSE
    /\ next_id = 1
    /\ last = NoPass
    /\ begun = {}
    /\ dropped = {}
    /\ dkg_calls = NoDkgCalls
    /\ ChainInit
    /\ SignerInit
    /\ BootIdle
    /\ NodeIdle
    /\ HttpIdle
    /\ ResolverIdle

\* The run loop over the passes of one reward cycle, during which the next
\* cycle's reward set is calculated.
NextCycle ==
    \/ CalculateRewardSet
    \/ BeginPass
    \/ RefreshAttempt
    \/ ProcessPass

SpecCycle == InitCycle /\ [][NextCycle]_vars

\* The run loop after the pass in which the machine of the current reward
\* cycle has begun a command, submitted before those of the run.
InitQueue ==
    /\ chain_cycle = 0
    /\ calc_next = FALSE
    /\ reg_cur = TRUE
    /\ reg_next = FALSE
    /\ stacks_signers =
           (0 :> [SignerNew(0) EXCEPT !.state = "OperationInProgress",
                                      !.dkg_done = TRUE])
    /\ state = "Initialized"
    /\ pc = "idle"
    /\ event = None
    /\ cmd = NoCmd
    /\ refresh_ok = TRUE
    /\ next_id = 1
    /\ last = NoPass
    /\ begun = {0}
    /\ dropped = {}
    /\ dkg_calls = Unlogged
    /\ ChainInit
    /\ SignerInit
    /\ BootIdle
    /\ NodeIdle
    /\ HttpIdle
    /\ ResolverIdle

\* The passes of one reward cycle over a machine that is busy at first.
SpecQueue == InitQueue /\ [][NextCycle]_vars

\* ------------------------------------------------------------------------
\* The boot plan that drives the test peer (net/tests/mod.rs)

\* The run loop as constructed, for the runs that only build the chain.
RunLoopIdle ==
    /\ chain_cycle = 0
    /\ calc_next = FALSE
    /\ reg_cur = FALSE
    /\ reg_next = FALSE
    /\ stacks_signers = EmptyMap
    /\ state = "Uninitialized"
    /\ pc = "idle"
    /\ event = None
    /\ cmd = NoCmd
    /\ refresh_ok = FALSE
    /\ next_id = 1
    /\ last = NoPass
    /\ begun = {}
    /\ dropped = {}
    /\ dkg_calls = Unlogged

InitChain == RunLoopIdle /\ ChainInit /\ SignerInit /\ ResolverIdle /\ BootIdle /\ NodeIdle /\ HttpIdle

\* The plan runs for as long as the peers accept the blocks it makes.
plan_running == made_blocks = {} \/ processed_blocks # {}

\* make_nakamoto_tenure_blocks on one block: it and its malleablized copies
\* are processed; the block is then the last of the plan, and the canonical
\* tip is one of the blocks processed.
ProduceBlock(sdb, block) ==
    \E sigs \in 1..(1 + MaxMalleablized) :
        LET r == process_malleablized(
                     [cs |-> chainstate, made |-> {}, processed |-> {}],
                     sdb, block, sigs)
        IN  /\ Len(r.cs.blocks) <= MaxBlocks
            /\ chainstate' = r.cs
            /\ made_blocks' = r.made
            /\ processed_blocks' = r.processed
            /\ last_block' = IF r.processed = {} THEN last_block
                             ELSE Len(chainstate.blocks) + 1
            /\ stacks_tip' \in (IF r.processed = {} THEN {stacks_tip}
                                ELSE r.processed)

\* NakamotoBootTenure::Sortition: a burn block with a winner, and the first
\* block of the winner's tenure.
SortitionTenure ==
    /\ plan_running
    /\ Len(sortdb) < MaxBurn
    /\ LET begun_tenure == begin_nakamoto_tenure(chainstate, stacks_tip,
                                                 "BlockFound")
           consensus_hash == Len(sortdb) + 1
           tenure_change ==
               [begun_tenure EXCEPT !.tenure_consensus_hash = consensus_hash,
                                    !.burn_view_consensus_hash = consensus_hash]
           next_sortdb ==
               Append(sortdb,
                      [sortition |-> TRUE,
                       parent_tenure_id |->
                           last_tenure_change.tenure_consensus_hash])
       IN  /\ sortdb' = next_sortdb
           /\ last_tenure_change' = tenure_change
           /\ blocks_since_last_tenure' = 1
           /\ ProduceBlock(next_sortdb,
                  make_nakamoto_block(chainstate, stacks_tip, consensus_hash,
                                      {tenure_change}))
    /\ UNCHANGED <<runloop_vars, signer_vars, resolver_vars, boot_vars, node_vars, http_vars>>

\* NakamotoBootTenure::NoSortition: a burn block without a winner, and a
\* block that extends the last tenure across it.
NoSortitionTenure ==
    /\ plan_running
    /\ Len(sortdb) < MaxBurn
    /\ LET next_consensus_hash == Len(sortdb) + 1
           tenure_change_extend ==
               extend(last_tenure_change, next_consensus_hash, last_block,
                      blocks_since_last_tenure)
           next_sortdb ==
               Append(sortdb, [sortition |-> FALSE, parent_tenure_id |-> 0])
       IN  /\ sortdb' = next_sortdb
           /\ blocks_since_last_tenure' = blocks_since_last_tenure + 1
           /\ ProduceBlock(next_sortdb,
                  make_nakamoto_block(chainstate, stacks_tip,
                      tenure_change_extend.tenure_consensus_hash,
                      {tenure_change_extend}))
    /\ UNCHANGED last_tenure_change
    /\ UNCHANGED <<runloop_vars, signer_vars, resolver_vars, boot_vars, node_vars, http_vars>>

\* NakamotoBootStep::Block after the first block of a tenure: a block of
\* transactions on the canonical tip.
BlockStep ==
    /\ plan_running
    /\ blocks_since_last_tenure' = blocks_since_last_tenure + 1
    /\ ProduceBlock(sortdb,
           make_nakamoto_block(chainstate, stacks_tip,
               last_tenure_change.tenure_consensus_hash, NoTenure))
    /\ UNCHANGED <<sortdb, last_tenure_change>>
    /\ UNCHANGED <<runloop_vars, signer_vars, resolver_vars, boot_vars, node_vars, http_vars>>

\* NakamotoBootStep::TenureExtend after the first block of a tenure: a block
\* that extends the tenure on the last block of the plan.
TenureExtendStep ==
    /\ plan_running
    /\ LET tenure_extension ==
               extend(last_tenure_change, Len(sortdb), last_block,
                      blocks_since_last_tenure)
       IN  /\ blocks_since_last_tenure' = blocks_since_last_tenure + 1
           /\ ProduceBlock(sortdb,
                  make_nakamoto_block(chainstate, stacks_tip,
                      tenure_extension.tenure_consensus_hash,
                      {tenure_extension}))
    /\ UNCHANGED <<sortdb, last_tenure_change>>
    /\ UNCHANGED <<runloop_vars, signer_vars, resolver_vars, boot_vars, node_vars, http_vars>>

NextChain ==
    \/ SortitionTenure
    \/ NoSortitionTenure
    \/ BlockStep
    \/ TenureExtendStep

SpecChain == InitChain /\ [][NextChain]_vars

\* ------------------------------------------------------------------------
\* The signer that follows the miner (tests/nakamoto_integrations.rs,
\* signer_chainstate)

\* The proposals a miner may send that are siblings of an endorsed block:
\* on the same parent, with another version, height, tenure or tenure-change.
SiblingProposals ==
    LET signed == {info.block : info \in signed_over(signer_db)}
        tenure_txs == {NoTenure} \cup {other.tenure_tx : other \in signed}
        candidates ==
            {[header |-> [version |-> v,
                          chain_length |-> other.header.chain_length - d,
                          consensus_hash |-> ch,
                          parent_block_id |-> other.header.parent_block_id],
              tenure_tx |-> tx] :
                 other \in signed, v \in 0..1, d \in 0..1, ch \in DOMAIN sortdb,
                 tx \in tenure_txs}
    IN  {block \in candidates : \E other \in signed : is_sibling(block, other)}

\* One round of the loop of signer_chainstate: a burn block is mined, the
\* view is fetched, the proposals of the prior tenure must now be rejected,
\* the miner's tenure-start block and then an interim block must be found
\* valid, and each is recorded as signed. The test ends when an assertion
\* fails.
MineTenure ==
    /\ checked.case # "failed"
    /\ Len(sortdb) < MaxBurn
    /\ Len(chainstate.blocks) + 2 <= MaxBlocks
    /\ LET consensus_hash == Len(sortdb) + 1
           next_sortdb ==
               Append(sortdb,
                      [sortition |-> TRUE,
                       parent_tenure_id |->
                           last_tenure_change.tenure_consensus_hash])
           view == fetch_view(next_sortdb)
           prior == {chainstate.blocks[id] :
                        id \in UNION {{p.first} \cup Range(p.interims) :
                                         p \in last_tenures_proposals}}
           prior_rejected ==
               \A block \in prior : ~check_proposal(view, signer_db, block)
           begun_tenure == begin_nakamoto_tenure(chainstate, stacks_tip,
                                                 "BlockFound")
           tenure_change ==
               [begun_tenure EXCEPT !.tenure_consensus_hash = consensus_hash,
                                    !.burn_view_consensus_hash = consensus_hash]
           proposal == make_nakamoto_block(chainstate, stacks_tip,
                                           consensus_hash, {tenure_change})
           valid == check_proposal(view, signer_db, proposal)
           mined == process_new_nakamoto_block(chainstate, next_sortdb, proposal)
           proposal_id == Len(mined.cs.blocks)
           db_with_proposal == insert_block(signer_db, proposal_id, proposal)
           proposal_interim == make_nakamoto_block(mined.cs, proposal_id,
                                                   consensus_hash, NoTenure)
           valid_interim ==
               check_proposal(view, db_with_proposal, proposal_interim)
           mined_interim == process_new_nakamoto_block(mined.cs, next_sortdb,
                                                       proposal_interim)
           interim_id == Len(mined_interim.cs.blocks)
       IN  IF prior_rejected /\ valid /\ mined.accepted
              /\ valid_interim /\ mined_interim.accepted
           THEN /\ sortdb' = next_sortdb
                /\ sortitions_view' = view
                /\ chainstate' = mined_interim.cs
                /\ stacks_tip' = interim_id
                /\ last_tenure_change' = tenure_change
                /\ blocks_since_last_tenure' = 2
                /\ last_block' = interim_id
                /\ made_blocks' = {proposal, proposal_interim}
                /\ processed_blocks' = {proposal_id, interim_id}
                /\ signer_db' = insert_block(db_with_proposal, interim_id,
                                             proposal_interim)
                /\ last_tenures_proposals' =
                       {[first |-> proposal_id, interims |-> <<interim_id>>]}
                /\ checked' = [case |-> "interim", block |-> proposal_interim,
                               valid |-> TRUE]
           ELSE /\ sortdb' = next_sortdb
                /\ sortitions_view' = view
                /\ checked' = [case |-> "failed", block |-> proposal,
                               valid |-> valid]
                /\ UNCHANGED <<chainstate, stacks_tip, last_tenure_change,
                               blocks_since_last_tenure, last_block,
                               made_blocks, processed_blocks, signer_db,
                               last_tenures_proposals>>
    /\ UNCHANGED <<runloop_vars, resolver_vars, boot_vars, node_vars, http_vars>>

\* After some rounds, a miner proposes a sibling of a block the signer has
\* endorsed; the view is fetched anew and the proposal is checked.
CheckSiblingProposal ==
    /\ checked.case # "failed"
    /\ last_tenures_proposals # {}
    /\ \E block \in SiblingProposals :
           LET view == fetch_view(sortdb)
           IN  /\ sortitions_view' = view
               /\ checked' = [case |-> "sibling", block |-> block,
                              valid |-> check_proposal(view, signer_db, block)]
    /\ UNCHANGED <<signer_db, last_tenures_proposals>>
    /\ UNCHANGED <<runloop_vars, chain_vars, resolver_vars, boot_vars, node_vars, http_vars>>

\* The proposals with a tenure-change a miner may send: the last tenure's
\* tenure-change again on the same parent, or a new tenure-change for any
\* sortition of sdb, on any block, declaring any parent tenure.
TenureChangeProposals(sdb) ==
    {lineage_block(chainstate.blocks[p.first]) : p \in last_tenures_proposals}
    \cup {reorg_block(chainstate, consensus_hash, reorg_to_id, prev_tenure) :
              consensus_hash \in DOMAIN sdb,
              reorg_to_id \in Epoch2Tip..Len(chainstate.blocks),
              prev_tenure \in DOMAIN sdb}

\* After some rounds, a miner proposes a block that starts a tenure; the
\* view is fetched anew and the proposal is checked.
CheckTenureChangeProposal ==
    /\ checked.case # "failed"
    /\ last_tenures_proposals # {}
    /\ \E block \in TenureChangeProposals(sortdb) :
           LET view == fetch_view(sortdb)
           IN  /\ sortitions_view' = view
               /\ checked' = [case |-> "tenure_change", block |-> block,
                              valid |-> check_proposal(view, signer_db, block)]
    /\ UNCHANGED <<signer_db, last_tenures_proposals>>
    /\ UNCHANGED <<runloop_vars, chain_vars, resolver_vars, boot_vars, node_vars, http_vars>>

\* A burn block is mined whose winner committed to the last tenure; the
\* view is fetched, and the block the winner proposes to start its tenure
\* is checked. The signer records nothing and the node stores nothing.
CheckNextTenureProposal ==
    /\ checked.case # "failed"
    /\ last_tenures_proposals # {}
    /\ Len(sortdb) < MaxBurn
    /\ LET next_sortdb ==
               Append(sortdb,
                      [sortition |-> TRUE,
                       parent_tenure_id |->
                           last_tenure_change.tenure_consensus_hash])
           view == fetch_view(next_sortdb)
       IN  \E block \in TenureChangeProposals(next_sortdb) :
               /\ sortdb' = next_sortdb
               /\ sortitions_view' = view
               /\ checked' = [case |-> "next_tenure", block |-> block,
                              valid |-> check_proposal(view, signer_db, block)]
    /\ UNCHANGED <<chainstate, stacks_tip, last_tenure_change,
                   blocks_since_last_tenure, last_block, made_blocks,
                   processed_blocks, signer_db, last_tenures_proposals>>
    /\ UNCHANGED <<runloop_vars, resolver_vars, boot_vars, node_vars, http_vars>>

NextProposal ==
    \/ MineTenure
    \/ CheckSiblingProposal
    \/ CheckTenureChangeProposal
    \/ CheckNextTenureProposal

SpecProposal == InitChain /\ [][NextProposal]_vars

\* ------------------------------------------------------------------------
\* Calls of the resolver

\* The run loops that may make a call: the client of the node, and machines
\* under any of the two keys.
RunLoops == {[stacks_client |-> node, stacks_signers |-> keys] :
                keys \in SUBSET {0, 1}}

\* The state after a call that returned `result`.
Resolved(fault, result) ==
    /\ resolved' = [fault |-> fault, again |-> resolved_infos # {},
                    result |-> result]
    /\ resolved_infos' = resolved_infos
                          \cup (IF result.kind = "Some" THEN {result.info}
                                ELSE {})

\* get_stacks_node_info is called and every step of it succeeds.
Resolve ==
    /\ \E this \in RunLoops :
           Resolved("none",
                    resolve_stacks_node_info(this, resolve_cycle, "none"))
    /\ UNCHANGED <<node, resolve_cycle>>
    /\ UNCHANGED <<runloop_vars, chain_vars, signer_vars, boot_vars, node_vars, http_vars>>

\* get_stacks_node_info is called and a client call fails, or a signing key
\* of the reward set is malformed.
ResolveFails ==
    /\ \E this \in RunLoops,
          fault \in {"calculated", "slots", "reward_set", "key"} :
           Resolved(fault,
                    resolve_stacks_node_info(this, resolve_cycle, fault))
    /\ UNCHANGED <<node, resolve_cycle>>
    /\ UNCHANGED <<runloop_vars, chain_vars, signer_vars, boot_vars, node_vars, http_vars>>

NextResolver ==
    \/ Resolve
    \/ ResolveFails

InitResolver == RunLoopIdle /\ ChainInit /\ SignerInit /\ ResolverInit /\ BootIdle /\ NodeIdle /\ HttpIdle

SpecResolver == InitResolver /\ [][NextResolver]_vars

\* ------------------------------------------------------------------------
\* The boot run loop across the epoch 3.0 transition

\* BootRunLoop::new on a node at any burn height that leaves the burnchain
\* room to grow, with the start of epoch 3.0 as configured.
BootInit ==
    /\ epoch_3_start_height \in 0..MaxBurn
    /\ burn_height \in 0..(MaxBurn - 1)
    /\ \E db_ok \in BOOLEAN :
           /\ active_loop =
                  new_active_loop(db_ok, burn_height, epoch_3_start_height)
           /\ transition_check =
                  TransitionCheck(db_ok, burn_height, epoch_3_start_height)
    /\ termination_switch = TRUE
    /\ neon_running = FALSE
    /\ naka_running = FALSE
    /\ neon_starts = 0
    /\ naka_starts = 0
    /\ boot_pc = "new"
    /\ stopper_pc = "unspawned"
    /\ exited_for_transition = FALSE
    /\ coord_channel = new_coordinator_channels(active_loop)
    /\ naka_switch = new_naka_switch(active_loop)
    /\ stop_requested = "no"

InitBoot == RunLoopIdle /\ ChainInit /\ SignerInit /\ ResolverIdle /\ BootInit /\ NodeIdle /\ HttpIdle

\* BootRunLoop::start on the neon run loop: start_from_neon spawns the
\* epoch-2/3-boot thread and enters NeonRunLoop::start.
StartFromNeon ==
    /\ boot_pc = "new"
    /\ active_loop = "Epoch2"
    /\ stopper_pc' = "check"
    /\ neon_running' = TRUE
    /\ neon_starts' = neon_starts + 1
    /\ boot_pc' = "neon"
    /\ UNCHANGED <<epoch_3_start_height, burn_height, active_loop,
                   termination_switch, naka_running, naka_starts,
                   exited_for_transition, coord_channel,
                   naka_switch, stop_requested,
                   transition_check>>
    /\ UNCHANGED <<runloop_vars, chain_vars, signer_vars, resolver_vars, node_vars, http_vars>>

\* BootRunLoop::start on the Nakamoto run loop: start_from_naka enters
\* NakaRunLoop::start.
StartFromNaka ==
    /\ boot_pc = "new"
    /\ active_loop = "Epoch3"
    /\ naka_running' = TRUE
    /\ naka_starts' = naka_starts + 1
    /\ boot_pc' = "naka"
    /\ UNCHANGED <<epoch_3_start_height, burn_height, active_loop,
                   termination_switch, neon_running, neon_starts, stopper_pc,
                   exited_for_transition, coord_channel,
                   naka_switch, stop_requested,
                   transition_check>>
    /\ UNCHANGED <<runloop_vars, chain_vars, signer_vars, resolver_vars, node_vars, http_vars>>

\* The run loop in progress records a new burnchain block.
BurnBlock ==
    /\ neon_running \/ naka_running
    /\ burn_height < MaxBurn
    /\ burn_height' = burn_height + 1
    /\ UNCHANGED <<epoch_3_start_height, active_loop, termination_switch,
                   neon_running, naka_running, neon_starts, naka_starts,
                   boot_pc, stopper_pc, exited_for_transition, coord_channel,
                   naka_switch, stop_requested,
                   transition_check>>
    /\ UNCHANGED <<runloop_vars, chain_vars, signer_vars, resolver_vars, node_vars, http_vars>>

\* A holder of the switch that get_termination_switch gave out before start
\* asks the node to stop, once.
StopRequested ==
    /\ boot_pc \in {"neon", "join", "new_naka", "start_naka", "naka"}
    /\ stop_requested = "no"
    /\ termination_switch' = FALSE
    /\ stop_requested' = active_loop
    /\ UNCHANGED <<epoch_3_start_height, burn_height, active_loop,
                   neon_running, naka_running, neon_starts, naka_starts,
                   boot_pc, stopper_pc, exited_for_transition, coord_channel,
                   naka_switch, transition_check>>
    /\ UNCHANGED <<runloop_vars, chain_vars, signer_vars, resolver_vars, node_vars, http_vars>>

\* The epoch-2/3-boot thread tests for the transition; a failure to read
\* the burn height counts as height 0.
StopperCheck ==
    /\ stopper_pc = "check"
    /\ \E db_ok \in BOOLEAN :
           LET check == TransitionCheck(db_ok, burn_height, epoch_3_start_height)
           IN  /\ transition_check' = check
               /\ stopper_pc' = IF check.do_transition
                                THEN "transition" ELSE "load"
    /\ UNCHANGED <<epoch_3_start_height, burn_height, active_loop,
                   termination_switch, neon_running, naka_running, neon_starts,
                   naka_starts, boot_pc, exited_for_transition, coord_channel,
                   naka_switch, stop_requested>>
    /\ UNCHANGED <<runloop_vars, chain_vars, signer_vars, resolver_vars, node_vars, http_vars>>

\* Without a transition the thread reads the switch: it returns false if a
\* stop was requested, and sleeps before the next test otherwise.
StopperLoad ==
    /\ stopper_pc = "load"
    /\ IF ~termination_switch
       THEN stopper_pc' = "returned" /\ exited_for_transition' = FALSE
       ELSE stopper_pc' = "check" /\ UNCHANGED exited_for_transition
    /\ UNCHANGED <<epoch_3_start_height, burn_height, active_loop,
                   termination_switch, neon_running, naka_running, neon_starts,
                   naka_starts, boot_pc, coord_channel,
                   naka_switch, stop_requested,
                   transition_check>>
    /\ UNCHANGED <<runloop_vars, chain_vars, signer_vars, resolver_vars, node_vars, http_vars>>

\* At the transition the thread stops the neon run loop and returns true.
StopperTransition ==
    /\ stopper_pc = "transition"
    /\ termination_switch' = FALSE
    /\ exited_for_transition' = TRUE
    /\ stopper_pc' = "returned"
    /\ UNCHANGED <<epoch_3_start_height, burn_height, active_loop,
                   neon_running, naka_running, neon_starts, naka_starts,
                   boot_pc, coord_channel,
                   naka_switch, stop_requested,
                   transition_check>>
    /\ UNCHANGED <<runloop_vars, chain_vars, signer_vars, resolver_vars, node_vars, http_vars>>

\* NeonRunLoop::start returns once the switch is off.
NeonLoopReturns ==
    /\ boot_pc = "neon"
    /\ ~termination_switch
    /\ neon_running' = FALSE
    /\ boot_pc' = "join"
    /\ UNCHANGED <<epoch_3_start_height, burn_height, active_loop,
                   termination_switch, naka_running, neon_starts, naka_starts,
                   stopper_pc, exited_for_transition, coord_channel,
                   naka_switch, stop_requested,
                   transition_check>>
    /\ UNCHANGED <<runloop_vars, chain_vars, signer_vars, resolver_vars, node_vars, http_vars>>

\* start_from_neon joins the epoch-2/3-boot thread and returns if that
\* thread was stopped; otherwise it turns the switch on again.
JoinStopper ==
    /\ boot_pc = "join"
    /\ stopper_pc = "returned"
    /\ IF ~exited_for_transition
       THEN boot_pc' = "returned" /\ UNCHANGED termination_switch
       ELSE boot_pc' = "new_naka" /\ termination_switch' = TRUE
    /\ UNCHANGED <<epoch_3_start_height, burn_height, active_loop,
                   neon_running, naka_running, neon_starts, naka_starts,
                   stopper_pc, exited_for_transition, coord_channel,
                   naka_switch, stop_requested,
                   transition_check>>
    /\ UNCHANGED <<runloop_vars, chain_vars, signer_vars, resolver_vars, node_vars, http_vars>>

\* start_from_neon constructs the Nakamoto run loop with the switch and the
\* counters of the neon one, puts its coordinator channels behind the shared
\* mutex and makes it the active loop.
SwitchToNaka ==
    /\ boot_pc = "new_naka"
    /\ naka_switch' = naka_should_keep_running(switch_for_naka)
    /\ coord_channel' = "naka"
    /\ active_loop' = "Epoch3"
    /\ boot_pc' = "start_naka"
    /\ UNCHANGED <<epoch_3_start_height, burn_height, termination_switch,
                   neon_running, naka_running, neon_starts, naka_starts,
                   stopper_pc, exited_for_transition, stop_requested,
                   transition_check>>
    /\ UNCHANGED <<runloop_vars, chain_vars, signer_vars, resolver_vars, node_vars, http_vars>>

\* The last line of start_from_neon enters NakaRunLoop::start.
StartNakaAfterNeon ==
    /\ boot_pc = "start_naka"
    /\ naka_running' = TRUE
    /\ naka_starts' = naka_starts + 1
    /\ boot_pc' = "naka"
    /\ UNCHANGED <<epoch_3_start_height, burn_height, active_loop,
                   termination_switch, neon_running, neon_starts, stopper_pc,
                   exited_for_transition, coord_channel, naka_switch,
                   stop_requested,
                   transition_check>>
    /\ UNCHANGED <<runloop_vars, chain_vars, signer_vars, resolver_vars, node_vars, http_vars>>

\* NakaRunLoop::start returns once the switch the run loop observes is off.
NakaLoopReturns ==
    /\ boot_pc = "naka"
    /\ naka_switch = "obtained"
    /\ ~termination_switch
    /\ naka_running' = FALSE
    /\ boot_pc' = "returned"
    /\ UNCHANGED <<epoch_3_start_height, burn_height, active_loop,
                   termination_switch, neon_running, neon_starts, naka_starts,
                   stopper_pc, exited_for_transition, coord_channel,
                   naka_switch, stop_requested,
                   transition_check>>
    /\ UNCHANGED <<runloop_vars, chain_vars, signer_vars, resolver_vars, node_vars, http_vars>>

NextBoot ==
    \/ StartFromNeon
    \/ StartFromNaka
    \/ BurnBlock
    \/ StopRequested
    \/ StopperCheck
    \/ StopperLoad
    \/ StopperTransition
    \/ NeonLoopReturns
    \/ JoinStopper
    \/ SwitchToNaka
    \/ StartNakaAfterNeon
    \/ NakaLoopReturns

\* The threads of the node are scheduled: the epoch-2/3-boot thread stores
\* and returns, the thread that called start goes on through start_from_neon,
\* and a run loop returns once the switch it observes is off.
BootFairness ==
    /\ WF_vars(StopperTransition)
    /\ WF_vars(StopperLoad)
    /\ WF_vars(NeonLoopReturns)
    /\ WF_vars(JoinStopper)
    /\ WF_vars(SwitchToNaka)
    /\ WF_vars(StartNakaAfterNeon)
    /\ WF_vars(NakaLoopReturns)

SpecBoot == InitBoot /\ [][NextBoot]_vars /\ BootFairness

\* ------------------------------------------------------------------------
\* The calls that record tenures on a TestStacksNode

\* The blocks of one call: up to two blocks of one tenure.
TenureBlocks ==
    {<<>>} \cup
    UNION {{<<[consensus_hash |-> h, seq |-> 1]>>,
            <<[consensus_hash |-> h, seq |-> 1], [consensus_hash |-> h, seq |-> 2]>>} :
               h \in 1..MaxTenures}

\* The number of blocks recorded.
RECURSIVE recorded_blocks(_)
recorded_blocks(recorded) ==
    IF recorded = <<>> THEN 0
    ELSE Len(recorded[Len(recorded)])
         + recorded_blocks(SubSeq(recorded, 1, Len(recorded) - 1))

\* make_nakamoto_tenure_and and process_nakamoto_tenure record the blocks
\* of a tenure.
AddTenureBlocks ==
    /\ ~node_panic
    /\ \E tenure_blocks \in TenureBlocks :
           LET r == add_nakamoto_tenure_blocks(nakamoto_blocks, tenure_blocks)
           IN  /\ recorded_blocks(nakamoto_blocks) + Len(tenure_blocks) <= MaxRecorded
               /\ Len(nakamoto_blocks) < MaxTenures
               /\ nakamoto_blocks' = r.nakamoto_blocks
               /\ node_panic' = r.panic
    /\ node_op' = "tenure"
    /\ UNCHANGED <<runloop_vars, chain_vars, signer_vars, resolver_vars, boot_vars, http_vars>>

\* make_nakamoto_tenure_extension records the blocks of an extension.
AddExtendedBlocks ==
    /\ ~node_panic
    /\ \E tenure_blocks \in TenureBlocks :
           LET r == add_nakamoto_extended_blocks(nakamoto_blocks, tenure_blocks)
           IN  /\ recorded_blocks(nakamoto_blocks) + Len(tenure_blocks) <= MaxRecorded
               /\ nakamoto_blocks' = r.nakamoto_blocks
               /\ node_panic' = r.panic
    /\ node_op' = "extended"
    /\ UNCHANGED <<runloop_vars, chain_vars, signer_vars, resolver_vars, boot_vars, http_vars>>

NextNode ==
    \/ AddTenureBlocks
    \/ AddExtendedBlocks

\* A TestStacksNode as constructed: it has recorded no tenure.
InitNode == RunLoopIdle /\ ChainInit /\ SignerInit /\ ResolverIdle /\ BootIdle /\ NodeIdle /\ HttpIdle

SpecNode == InitNode /\ [][NextNode]_vars

\* ------------------------------------------------------------------------
\* A get-signer request from a client to the node

\* A client builds the request for a signer's key and a reward cycle.
NewGetSigner ==
    /\ \E signer_pubkey \in PublicKeys, cycle_num \in 0..MaxCycleNum :
           getsigner_request' =
               {[signer_pubkey |-> signer_pubkey, cycle_num |-> cycle_num,
                 path |-> new_getsigner(signer_pubkey, cycle_num)]}
    /\ getsigner_handler' = restart
    /\ getsigner_decoded' = "none"
    /\ UNCHANGED <<runloop_vars, chain_vars, signer_vars, resolver_vars, boot_vars, node_vars>>

\* The node decodes the request: the handler parses it if its path_regex
\* matches the path, and the request is for no handler otherwise.
DecodeRequest ==
    /\ getsigner_request # {}
    /\ getsigner_decoded = "none"
    /\ LET path == Some(getsigner_request).path
       IN  IF path_regex(path)
           THEN /\ getsigner_handler' = try_parse_request(path)
                /\ getsigner_decoded' = "Ok"
           ELSE /\ getsigner_decoded' = "NoMatch"
                /\ UNCHANGED getsigner_handler
    /\ UNCHANGED getsigner_request
    /\ UNCHANGED <<runloop_vars, chain_vars, signer_vars, resolver_vars, boot_vars, node_vars>>

NextGetSigner ==
    \/ NewGetSigner
    \/ DecodeRequest

InitGetSigner == RunLoopIdle /\ ChainInit /\ SignerInit /\ ResolverIdle /\ BootIdle /\ NodeIdle /\ HttpIdle

SpecGetSigner == InitGetSigner /\ [][NextGetSigner]_vars

\* ------------------------------------------------------------------------
\* Properties of the run loop

\* The pass that just ended got past the refresh step.
Processed == last.kind = "processed"

\* The machine that RouteCommand must leave under key k, given the map the
\* refresh step left and the pass's command.
ExpectedRouted(before, c, k) ==
    IF /\ c # NoCmd
       /\ k = Some(c).reward_cycle % 2
       /\ before[k].reward_cycle = Some(c).reward_cycle
    THEN [before[k] EXCEPT !.commands = Append(@, Some(c).id)]
    ELSE before[k]

\* C1: in a pass that gets past the refresh step the command is appended to
\* the queue of the machine under key reward_cycle mod 2 only when that
\* machine's reward cycle equals the command's; otherwise (slot empty, or a
\* machine of another cycle) no queue changes; at most one queue grows, by
\* one command.
C1_CommandRoutedOnlyToMatchingCycle ==
    Processed =>
        /\ DOMAIN last.routed = DOMAIN last.refreshed
        /\ \A k \in DOMAIN last.routed :
               last.routed[k] = ExpectedRouted(last.refreshed, last.cmd, k)

\* A pass whose command names a cycle whose slot holds a machine of another
\* cycle, next to a pass-through of the matching case being possible.
C1_Witness ==
    /\ Processed
    /\ last.cmd # NoCmd
    /\ (Some(last.cmd).reward_cycle % 2) \in DOMAIN last.refreshed
    /\ last.refreshed[Some(last.cmd).reward_cycle % 2].reward_cycle
           # Some(last.cmd).reward_cycle

\* C2: in a pass that gets past the refresh step every live machine receives
\* the event and has process_next_command run, also when another machine's
\* process_event returned an error; the machine that erred still runs its
\* next command.
C2_EventDeliveredToEveryMachine ==
    Processed =>
        /\ last.delivered = DOMAIN last.routed
        /\ last.ran = DOMAIN last.routed
        /\ DOMAIN last.processed = DOMAIN last.routed
        /\ \A k \in last.errored :
               last.processed[k] = process_next_command(last.routed[k]).signer

\* Two live machines, one of which failed to process the event.
C2_Witness ==
    /\ Processed
    /\ Cardinality(DOMAIN last.routed) = 2
    /\ Cardinality(last.errored) = 1

\* C3: at the end of a pass that gets past the refresh step no machine in the
\* map is TenureExceeded, every other machine that was in the map before
\* cleanup is still there unchanged, and no command that was queued on a
\* deleted machine is ever begun.
C3_CleanupDeletesExactlyStale ==
    /\ Processed =>
           /\ \A k \in DOMAIN stacks_signers :
                  stacks_signers[k].state # "TenureExceeded"
           /\ \A k \in DOMAIN last.processed :
                  last.processed[k].state # "TenureExceeded" =>
                      /\ k \in DOMAIN stacks_signers
                      /\ stacks_signers[k] = last.processed[k]
    /\ dropped \cap begun = {}

\* A pass that deleted one machine with a command still queued and kept the
\* other.
C3_Witness ==
    /\ Processed
    /\ Cardinality(DOMAIN last.processed) = 2
    /\ Cardinality(DOMAIN stacks_signers) = 1
    /\ dropped # {}

\* C4: whenever the signer map holds a machine at the end of a pass (and so
\* at the end of its last refresh attempt), the run-loop state is
\* Initialized.
C4_LiveMachineImpliesInitialized ==
    (pc = "idle" /\ DOMAIN stacks_signers # {}) => state = "Initialized"

\* C5: the map holds at most two machines, under keys 0 and 1, and the
\* machine under key k is for a reward cycle of parity k.
C5_MapKeyedByParity ==
    /\ Cardinality(DOMAIN stacks_signers) <= 2
    /\ DOMAIN stacks_signers \subseteq {0, 1}
    /\ \A k \in DOMAIN stacks_signers :
           stacks_signers[k].reward_cycle % 2 = k

\* Two machines live together, the current and the next cycle's.
C5_Witness ==
    /\ Cardinality(DOMAIN stacks_signers) = 2
    /\ \E k \in DOMAIN stacks_signers :
           stacks_signers[k].reward_cycle = chain_cycle + 1

\* ------------------------------------------------------------------------
\* Properties of the chain a boot plan builds

\* The blocks whose parent is a Nakamoto block: the ones
\* check_processed_nakamoto_block examines.
Checked == {block \in made_blocks \cup Range(chainstate.blocks) :
               block.header.parent_block_id \in DOMAIN chainstate.blocks}

\* C6: for every block the peer made or processed, check_tenure_continuity
\* with its parent's tenure is false when the block carries a BlockFound
\* tenure-change, and true when it carries an Extended one or none.
C6_ContinuityFollowsCause ==
    \A block \in Checked :
        LET parent_block_header ==
                chainstate.blocks[block.header.parent_block_id].header
            continuous ==
                check_tenure_continuity(chainstate,
                    parent_block_header.consensus_hash, block.header)
        IN  IF \E tx \in get_tenure_tx_payload(block) : tx.cause = "BlockFound"
            THEN ~continuous
            ELSE continuous

\* A chain that holds, beyond its first block, a processed BlockFound block,
\* a processed Extended block and a processed block without tenure-change.
C6_Witness ==
    /\ \E id \in DOMAIN chainstate.blocks :
           /\ id > 1
           /\ \E tx \in chainstate.blocks[id].tenure_tx : tx.cause = "BlockFound"
    /\ \E id \in DOMAIN chainstate.blocks :
           \E tx \in chainstate.blocks[id].tenure_tx : tx.cause = "Extended"
    /\ \E id \in DOMAIN chainstate.blocks : chainstate.blocks[id].tenure_tx = {}

\* C7: the coinbase height of every processed block is that of its parent
\* plus one if the block starts a tenure by BlockFound, and that of its
\* parent otherwise.
C7_CoinbaseHeightRisesOnBlockFound ==
    \A id \in DOMAIN chainstate.blocks :
        LET block == chainstate.blocks[id]
            block_coinbase_height == get_coinbase_height(chainstate, id)
            parent_coinbase_height ==
                get_coinbase_height(chainstate, block.header.parent_block_id)
        IN  block.header.parent_block_id \in DOMAIN chainstate.blocks =>
                /\ block_coinbase_height # {}
                /\ parent_coinbase_height # {}
                /\ Some(block_coinbase_height)
                       = Some(parent_coinbase_height)
                         + (IF get_tenure_change_tx_payload(block) # NoTenure
                            THEN 1 ELSE 0)

\* A chain with a second BlockFound tenure, an Extended block and a block
\* without tenure-change, the three at different coinbase heights or not as
\* the claim says.
C7_Witness ==
    \E a, b, c \in DOMAIN chainstate.blocks :
        /\ a > 1
        /\ \E tx \in chainstate.blocks[a].tenure_tx : tx.cause = "BlockFound"
        /\ chainstate.blocks[b].header.parent_block_id = a
        /\ \E tx \in chainstate.blocks[b].tenure_tx : tx.cause = "Extended"
        /\ chainstate.blocks[c].header.parent_block_id = b
        /\ chainstate.blocks[c].tenure_tx = {}
        /\ get_coinbase_height(chainstate, c) = get_coinbase_height(chainstate, a)

\* C8: for every block the peer made with a tenure-change,
\* check_nakamoto_tenure returns the tenure ongoing at the block's parent,
\* and returns no tenure once any one of the five identifying fields is
\* altered as check_processed_nakamoto_block alters it.
C8_TenureChangeChecked ==
    \A block \in made_blocks :
        \A tenure_tx \in get_tenure_tx_payload(block) :
            /\ check_nakamoto_tenure(chainstate, sortdb, block.header, tenure_tx)
                   # NoTenure
            /\ check_nakamoto_tenure(chainstate, sortdb, block.header, tenure_tx)
                   = get_ongoing_tenure(chainstate, block.header.parent_block_id)
            /\ \A bad_tenure_tx \in bad_tenure_txs(tenure_tx) :
                   check_nakamoto_tenure(chainstate, sortdb, block.header,
                                         bad_tenure_tx) = NoTenure

\* The peer has just processed a BlockFound block that ends a previous tenure
\* of several blocks, one of them an extension.
C8_Witness ==
    /\ processed_blocks # {}
    /\ \E block \in made_blocks :
           \E tenure_tx \in block.tenure_tx :
               /\ tenure_tx.cause = "BlockFound"
               /\ tenure_tx.previous_tenure_blocks >= 3
               /\ Cardinality(bad_tenure_txs(tenure_tx)) = 5

\* ------------------------------------------------------------------------
\* Properties of the proposal validation view

\* C10: the proposal check rejects every block that is a sibling (same
\* parent block, different content) of a block recorded as signed in the
\* signer's database.
C10_SiblingOfEndorsedRejected ==
    checked.case = "sibling" =>
        /\ \E info \in signed_over(signer_db) : is_sibling(checked.block, info.block)
        /\ ~checked.valid

\* The signer has endorsed the blocks of a tenure and is sent the sibling
\* that signer_chainstate builds, which nothing but the rule on siblings
\* keeps it from signing.
C10_Witness ==
    /\ checked.case = "sibling"
    /\ ~checked.valid
    /\ \E p \in last_tenures_proposals :
           checked.block = sibling_block(p.first, chainstate.blocks[p.first])
    /\ check_proposal_without_sibling_rule(sortitions_view, signer_db,
                                           checked.block)

\* The view the signer fetched when the burnchain tip was the sortition of
\* `consensus_hash`, and the database it held before it recorded block_id.
view_at(consensus_hash) == fetch_view(SubSeq(sortdb, 1, consensus_hash))

db_before(block_id) == {info \in signer_db : info.block_id < block_id}

TenureChangeChecked ==
    /\ checked.case \in {"tenure_change", "next_tenure"}
    /\ get_tenure_change_tx_payload(checked.block) # NoTenure

\* C12: the proposal check rejects a block with a tenure-change for a tenure
\* in which the signer has endorsed another block.
C12_EndorsedTenureNotRestarted ==
    (/\ TenureChangeChecked
     /\ \E info \in signed_over(signer_db) :
            /\ info.block.header.consensus_hash
                   = checked.block.header.consensus_hash
            /\ info.block # checked.block)
    => ~checked.valid

\* The signer has endorsed the blocks of the current tenure and is sent a
\* block that starts that tenure on another parent, which nothing but the
\* rule on endorsed tenures keeps it from signing.
C12_Witness ==
    /\ TenureChangeChecked
    /\ ~checked.valid
    /\ \E info \in signed_over(signer_db) :
           /\ info.block.header.consensus_hash
                  = checked.block.header.consensus_hash
           /\ info.block.tenure_tx # NoTenure
           /\ info.block.header.parent_block_id
                  # checked.block.header.parent_block_id
    /\ check_proposal_without_lineage_rule(sortitions_view, signer_db,
                                           checked.block)

\* C13: the proposal check rejects a block with a tenure-change whose parent
\* is not the last block the signer endorsed in the parent tenure the
\* tenure-change declares.
C13_ParentTenureConfirmed ==
    (/\ TenureChangeChecked
     /\ \E tenure_change \in get_tenure_change_tx_payload(checked.block) :
            \E info \in last_signed_in_tenure(signer_db,
                             tenure_change.prev_tenure_consensus_hash) :
                checked.block.header.parent_block_id # info.block_id)
    => ~checked.valid

\* The signer has endorsed two blocks of the last tenure and is sent a block
\* that starts the next tenure below them, which nothing but the rule on
\* confirming the parent tenure keeps it from signing.
C13_Witness ==
    /\ TenureChangeChecked
    /\ ~checked.valid
    /\ \E tenure_change \in get_tenure_change_tx_payload(checked.block) :
           \E info \in last_signed_in_tenure(signer_db,
                            tenure_change.prev_tenure_consensus_hash) :
               /\ checked.block.header.parent_block_id < info.block_id
               /\ info.block.tenure_tx = NoTenure
    /\ check_proposal_without_confirm_rule(sortitions_view, signer_db,
                                           checked.block)

\* C14: the proposal check rejects a block with a tenure-change whose
\* declared parent tenure is not the one the view records as the parent
\* tenure of the current sortition's winner.
C14_ParentTenureIsWinnersChoice ==
    (/\ TenureChangeChecked
     /\ \E tenure_change \in get_tenure_change_tx_payload(checked.block) :
            tenure_change.prev_tenure_consensus_hash
                # sortitions_view.cur_sortition.parent_tenure_id)
    => ~checked.valid

\* The winner committed to the last tenure and proposes, on the last block
\* of the chain, a block that declares an older tenure as its parent, which
\* nothing but the rule on the parent tenure keeps the signer from signing.
C14_Witness ==
    /\ TenureChangeChecked
    /\ ~checked.valid
    /\ checked.block.header.parent_block_id = stacks_tip
    /\ \E tenure_change \in get_tenure_change_tx_payload(checked.block) :
           tenure_change.prev_tenure_consensus_hash
               < sortitions_view.cur_sortition.parent_tenure_id
    /\ check_proposal_any_parent_tenure(sortitions_view, signer_db,
                                        checked.block)

\* ------------------------------------------------------------------------
\* Properties of the resolver

\* The last call went through every step: no client call failed and every
\* signing key was a public key.
ResolvedUnhindered ==
    /\ resolved.result.kind # "NotCalled"
    /\ resolved.fault = "none"

\* The slot holders of the signer set of the resolved cycle.
SlotHolders == node.slots[resolve_cycle % 2]

\* The entries of the reward set, none if the cycle has no signers.
RewardSetEntries ==
    IF node.signers = NoSigners THEN <<>> ELSE Some(node.signers)

\* The ids (positions counted from zero) of the reward-set entries, and of
\* the slots, that are the local signer's.
LocalSignerIds ==
    {i - 1 : i \in {j \in DOMAIN RewardSetEntries :
                      RewardSetEntries[j].address = LocalAddr}}

LocalSlotIds ==
    {i - 1 : i \in {j \in DOMAIN SlotHolders : SlotHolders[j] = LocalAddr}}

RECURSIVE SlotsBefore(_)
SlotsBefore(i) ==
    IF i <= 1 THEN 0
    ELSE SlotsBefore(i - 1) + RewardSetEntries[i - 1].slots

\* C16: in a resolved info the signer of entry i owns the slots_i key ids
\* that follow those of entry i-1, the first entry's starting at 1; the key
\* ids of two signers are disjoint and together they are 1..(sum of slots);
\* each key id is recorded with the key of its owner; with ten signers of
\* one slot each the key ids are 1..10, one to a signer.
C16_KeyIdsContiguous ==
    resolved.result.kind = "Some" =>
        LET info == resolved.result.info
            n == Len(RewardSetEntries)
            total == SlotsBefore(n + 1)
        IN  /\ DOMAIN info.signer_key_ids = 0..(n - 1)
            /\ \A i \in 1..n :
                   info.signer_key_ids[i - 1]
                       = (SlotsBefore(i) + 1)
                         ..(SlotsBefore(i) + RewardSetEntries[i].slots)
            /\ \A i, j \in 0..(n - 1) :
                   i # j => info.signer_key_ids[i] \cap info.signer_key_ids[j] = {}
            /\ UNION {info.signer_key_ids[i] : i \in 0..(n - 1)} = 1..total
            /\ DOMAIN info.public_keys.key_ids = 1..total
            /\ \A i \in 1..n :
                   \A key_id \in info.signer_key_ids[i - 1] :
                       info.public_keys.key_ids[key_id]
                           = RewardSetEntries[i].address
            /\ node = TenSigners =>
                   /\ DOMAIN info.public_keys.key_ids = 1..10
                   /\ \A i \in 0..9 :
                          Cardinality(info.signer_key_ids[i]) = 1

\* A resolved committee whose first signer has more slots than its second,
\* the second being the local signer.
C16_Witness ==
    /\ resolved.result.kind = "Some"
    /\ Len(RewardSetEntries) >= 2
    /\ RewardSetEntries[1].slots > RewardSetEntries[2].slots
    /\ resolved.result.info.signer_id = 1

\* The committee of ten has been resolved.
TenSignersResolved ==
    /\ node = TenSigners
    /\ resolved.result.kind = "Some"

Returned == last.kind = "returned"

\* C18: no pass gets past a failed refresh step while the run loop is
\* Uninitialized; the pass that returns there has delivered the event to no
\* machine, run no command, and left every machine and every queue as the
\* refresh step left them, its own command queued nowhere.
C18_UninitializedPassEnds ==
    /\ pc = "process" => (refresh_ok \/ state = "Initialized")
    /\ (Processed /\ ~last.refresh_ok) => state = "Initialized"
    /\ Returned =>
           /\ ~refresh_ok
           /\ last.delivered = {}
           /\ last.ran = {}
           /\ last.routed = last.refreshed
           /\ last.processed = last.refreshed
           /\ stacks_signers = last.refreshed
           /\ \A k \in DOMAIN stacks_signers :
                  \A c \in last.cmd :
                      c.id \notin Range(stacks_signers[k].commands)
           /\ pc = "idle"

\* A pass returned at the refresh step although the map held the machine of
\* the reward cycle its command was for.
C18_Witness ==
    /\ Returned
    /\ state = "Uninitialized"
    /\ \E c \in last.cmd :
           /\ (c.reward_cycle % 2) \in DOMAIN stacks_signers
           /\ stacks_signers[c.reward_cycle % 2].reward_cycle = c.reward_cycle

\* C19: a pass returns at the refresh step only while the run loop is
\* Uninitialized; a pass whose refresh step failed when it was Initialized
\* has routed its command in the map the refresh step left, delivered the
\* event to every machine of it, run each machine's next command and
\* cleaned up.
C19_InitializedPassContinues ==
    /\ Returned => state = "Uninitialized"
    /\ (Processed /\ ~last.refresh_ok) =>
           /\ last.routed = RouteCommand(last.refreshed, last.cmd)
           /\ last.delivered = DOMAIN last.refreshed
           /\ last.ran = DOMAIN last.refreshed
           /\ DOMAIN last.processed = DOMAIN last.refreshed
           /\ stacks_signers = cleanup_stale_signers(last.processed)

\* A pass whose refresh step failed queued its command on one of two
\* machines and deleted the other.
C19_Witness ==
    /\ Processed
    /\ ~last.refresh_ok
    /\ Cardinality(DOMAIN last.refreshed) = 2
    /\ last.routed # last.refreshed
    /\ Cardinality(DOMAIN stacks_signers) = 1

\* C20: when the node reports the local signer in the committee of neither
\* the current nor the next reward cycle, an attempt of the refresh step in
\* which no call fails ends with the NotRegistered error (the map is empty),
\* has created no machine, and leaves the state Uninitialized.
C20_UnregisteredLeavesUninitialized ==
    (pc = "refresh" /\ calc_next /\ ~reg_cur /\ ~reg_next) =>
        \A order \in Orders(DOMAIN stacks_signers) :
            LET r == RefreshClosure(stacks_signers, state, "none", order,
                                    [k \in DOMAIN stacks_signers |-> "complete"])
            IN  /\ ~r.ok
                /\ DOMAIN r.signers = {}
                /\ r.signers = stacks_signers
                /\ r.state = "Uninitialized"

\* ------------------------------------------------------------------------
\* Properties of the per-machine steps of a pass

\* The machines the pass goes on with once its refresh step is over.
LiveCycles == {stacks_signers[k].reward_cycle : k \in DOMAIN stacks_signers}

\* C21: an error of one machine in a per-machine step of a pass keeps no
\* other machine from that step: when a pass goes on after an update_dkg
\* call has failed, update_dkg has been called in the pass on every machine
\* of the map; and a pass that processes delivers the event to every machine
\* and runs every machine's next command, whichever machines failed.
C21_MachinesIndependent ==
    /\ (pc = "process" /\ dkg_calls.errored # {}) =>
           LiveCycles \subseteq dkg_calls.called
    /\ Processed =>
           /\ last.delivered = DOMAIN last.routed
           /\ last.ran = DOMAIN last.routed

\* C22: when a pass goes on to route its command and deliver its event,
\* update_dkg has been called in the pass on every machine of the map,
\* however the resolution of the two reward cycles ended.
C22_DkgUpdatedBeforeRouting ==
    pc = "process" => LiveCycles \subseteq dkg_calls.called

\* A step that is one attempt of the refresh step: the chain does not move.
AttemptStep ==
    /\ pc = "refresh"
    /\ chain_cycle' = chain_cycle
    /\ calc_next' = calc_next

\* C27: an attempt of the refresh step leaves a machine whose DKG is
\* complete, or for whose cycle the call finds DKG not needed, exactly as it
\* was (lifecycle state, command queue and DKG progress): its update_dkg
\* call drives no round and does not fail, in every pass that repeats it.
C27_DkgUpdateIdempotent ==
    [][AttemptStep =>
          \A k \in (DOMAIN stacks_signers) \cap (DOMAIN stacks_signers') :
              LET s == stacks_signers[k]
                  t == stacks_signers'[k]
              IN  (/\ t.reward_cycle = s.reward_cycle
                   /\ \/ s.dkg_done
                      \/ s.reward_cycle \in dkg_calls'.not_needed) =>
                      /\ t = s
                      /\ s.reward_cycle \notin dkg_calls'.drove
                      /\ s.reward_cycle \notin dkg_calls'.errored]_vars

\* update_dkg has been called again in this pass on a machine whose DKG was
\* complete and that is running a command with another one queued: the
\* call drove no round.
C27_Witness ==
    /\ pc = "process"
    /\ \E k \in DOMAIN stacks_signers :
           /\ stacks_signers[k].dkg_done
           /\ stacks_signers[k].state = "OperationInProgress"
           /\ stacks_signers[k].commands # <<>>
           /\ stacks_signers[k].reward_cycle \in dkg_calls.called
           /\ stacks_signers[k].reward_cycle \notin dkg_calls.drove

\* C29: an attempt of the refresh step keeps every machine whose reward
\* cycle is the current or the next one under its key, with its command
\* queue and its lifecycle state as they were and its DKG progress not
\* undone.
C29_LiveMachineResumable ==
    [][AttemptStep =>
          \A k \in DOMAIN stacks_signers :
              LET s == stacks_signers[k]
              IN  s.reward_cycle \in {chain_cycle, chain_cycle + 1} =>
                      /\ k \in DOMAIN stacks_signers'
                      /\ stacks_signers'[k].reward_cycle = s.reward_cycle
                      /\ stacks_signers'[k].commands = s.commands
                      /\ stacks_signers'[k].state = s.state
                      /\ s.dkg_done => stacks_signers'[k].dkg_done]_vars

\* A refresh step that succeeded has left in place a machine that is running
\* a command and has another one queued.
C29_Witness ==
    /\ pc = "process"
    /\ refresh_ok
    /\ \E k \in DOMAIN stacks_signers :
           /\ stacks_signers[k].reward_cycle \in {chain_cycle, chain_cycle + 1}
           /\ stacks_signers[k].state = "OperationInProgress"
           /\ stacks_signers[k].commands # <<>>

\* ------------------------------------------------------------------------
\* Properties of the command queues

\* Whether the sequence p is the beginning of the sequence q.
IsPrefix(p, q) == Len(p) <= Len(q) /\ SubSeq(q, 1, Len(p)) = p

\* C28: in a pass that processes, routing leaves what a machine's queue held
\* in place and in order, adding at most the pass's command at the back;
\* the machine then either leaves its queue alone or removes the command at
\* its front and begins it, so that it begins at most one command in the
\* pass and begins the commands of its queue in the order they were put in.
C28_CommandsBeginInOrder ==
    Processed =>
        \A k \in DOMAIN last.routed :
            LET held == last.refreshed[k].commands
                queue == last.routed[k].commands
                left == last.processed[k].commands
            IN  /\ IsPrefix(held, queue)
                /\ Len(queue) <= Len(held) + 1
                /\ \/ left = queue
                   \/ /\ queue # <<>>
                      /\ left = Tail(queue)
                      /\ Head(queue) \in begun
                      /\ \A id \in Range(left) : id \notin begun
                /\ \A i, j \in DOMAIN queue : i < j => queue[i] < queue[j]

\* A machine with two commands waiting has begun the one put in first.
C28_Witness ==
    /\ Processed
    /\ \E k \in DOMAIN last.routed :
           /\ Len(last.routed[k].commands) = 2
           /\ last.processed[k].commands = Tail(last.routed[k].commands)
           /\ Head(last.routed[k].commands) \in begun

\* ------------------------------------------------------------------------
\* Properties of the resolver's failures

\* The last call found the reward set not calculated, found no slot of the
\* local signer, or came upon a malformed signing key.
NotYetCalculated ==
    /\ resolved.result.kind # "NotCalled"
    /\ resolved.fault \notin {"calculated"}
    /\ ~node.calculated

SlotNotFound ==
    /\ resolved.result.kind # "NotCalled"
    /\ resolved.fault \notin {"calculated", "slots"}
    /\ node.calculated
    /\ LocalSlotIds = {}

MalformedKey ==
    /\ resolved.fault = "key"
    /\ node.calculated
    /\ LocalSlotIds # {}
    /\ RewardSetEntries # <<>>

\* Every call returns: an error, no info, or an info.
Returns == resolved.result.kind \in {"NotCalled", "Err", "None", "Some"}

\* C23 as stated: each of the three failures is reported as a transient
\* error, and no call ends the process.
C23_EveryFailureTransient ==
    /\ Returns
    /\ (NotYetCalculated \/ SlotNotFound \/ MalformedKey) =>
           /\ resolved.result.kind = "Err"
           /\ resolved.result.transient

\* C23, amended: a reward set that is not calculated and a malformed signing
\* key are reported as transient errors, as is every other error of a call;
\* a local signer without a slot is reported as not registered, which is no
\* error; no call ends the process.
C23_FailuresTransientOrUnregistered ==
    /\ Returns
    /\ NotYetCalculated =>
           /\ resolved.result.kind = "Err"
           /\ resolved.result.err = "RewardSetNotYetCalculated"
    /\ MalformedKey =>
           /\ resolved.result.kind = "Err"
           /\ resolved.result.err = "CorruptedRewardSet"
    /\ SlotNotFound => resolved.result = ResolveNone
    /\ resolved.result.kind = "Err" => resolved.result.transient

\* A call has come upon a malformed key in a reward set of two entries.
C23_Witness ==
    /\ MalformedKey
    /\ Len(RewardSetEntries) = 2
    /\ resolved.result.kind = "Err"

\* C24: a call that comes upon a malformed signing key returns an error
\* after which the refresh step is not attempted again.
C24_MalformedRewardSetNotRetried ==
    MalformedKey =>
        /\ resolved.result.kind = "Err"
        /\ ~Retried(resolved.result)

\* ------------------------------------------------------------------------
\* Properties of the VRF proofs and tenures of the processed chain

\* C25: every processed block has a VRF proof that its tenure's lookup
\* finds; a proof is stored with the block exactly if the block carries the
\* BlockFound tenure-change, and it is then the looked-up proof; and where
\* the parent tenure starts at a Nakamoto block, the parent VRF proof of the
\* block is the proof stored with that block.
C25_VrfProofStoredWithTenureStart ==
    \A id \in DOMAIN chainstate.blocks :
        LET block == chainstate.blocks[id]
            consensus_hash == block.header.consensus_hash
            vrf_proof == get_block_vrf_proof(chainstate, id, consensus_hash)
            block_vrf_proof == get_nakamoto_tenure_vrf_proof(chainstate, id)
            parent_tenure_start ==
                get_parent_tenure_start_header(chainstate, id, consensus_hash)
            parent_vrf_proof ==
                get_parent_vrf_proof(chainstate, id, sortdb, consensus_hash)
        IN  /\ vrf_proof # {}
            /\ IF get_tenure_change_tx_payload(block) # NoTenure
               THEN block_vrf_proof # {} /\ block_vrf_proof = vrf_proof
               ELSE block_vrf_proof = {}
            /\ consensus_hash # FirstBlock.header.consensus_hash =>
                   parent_tenure_start # {}
            /\ \A start \in parent_tenure_start :
                   /\ get_nakamoto_tenure_vrf_proof(chainstate, start) # {}
                   /\ get_nakamoto_tenure_vrf_proof(chainstate, start)
                          = parent_vrf_proof

\* A processed chain in which a tenure of several blocks, one of them an
\* extension, is followed by a tenure won by sortition that holds a block
\* after its first: the later block finds its proof and its parent's proof
\* by lookup only.
C25_Witness ==
    \E a, b, c \in DOMAIN chainstate.blocks :
        /\ \E tx \in chainstate.blocks[a].tenure_tx : tx.cause = "Extended"
        /\ get_tenure_change_tx_payload(chainstate.blocks[b]) # NoTenure
        /\ chainstate.blocks[b].header.parent_block_id = a
        /\ chainstate.blocks[c].header.parent_block_id = b
        /\ chainstate.blocks[c].tenure_tx = {}
        /\ get_nakamoto_tenure_vrf_proof(chainstate, c) = {}
        /\ get_block_vrf_proof(chainstate, c,
                               chainstate.blocks[c].header.consensus_hash)
               = get_nakamoto_tenure_vrf_proof(chainstate, b)
        /\ get_parent_tenure_start_header(chainstate, c,
               chainstate.blocks[c].header.consensus_hash) = {1}
        /\ get_parent_vrf_proof(chainstate, c, sortdb,
                                chainstate.blocks[c].header.consensus_hash)
               = get_nakamoto_tenure_vrf_proof(chainstate, 1)

\* C26: at every processed block with a Nakamoto parent one tenure is
\* ongoing, at the block and at its parent; the two differ exactly if the
\* block carries a tenure-change, BlockFound or Extended; and the
\* block-found tenure of the block's consensus hash differs from that of the
\* parent's consensus hash exactly if the block carries a BlockFound
\* tenure-change.
C26_TenureChangesAtBoundaries ==
    \A id \in DOMAIN chainstate.blocks :
        LET block == chainstate.blocks[id]
            parent == block.header.parent_block_id
            ongoing == get_ongoing_tenure(chainstate, id)
            block_found ==
                get_block_found_tenure(chainstate, id, block.header.consensus_hash)
        IN  parent \in DOMAIN chainstate.blocks =>
                LET parent_ongoing == get_ongoing_tenure(chainstate, parent)
                    parent_block_found ==
                        get_block_found_tenure(chainstate, id,
                            chainstate.blocks[parent].header.consensus_hash)
                IN  /\ Cardinality(ongoing) = 1
                    /\ Cardinality(parent_ongoing) = 1
                    /\ (ongoing # parent_ongoing)
                           <=> (get_tenure_tx_payload(block) # NoTenure)
                    /\ Cardinality(block_found) = 1
                    /\ Cardinality(parent_block_found) = 1
                    /\ (block_found # parent_block_found)
                           <=> (get_tenure_change_tx_payload(block) # NoTenure)

\* A processed chain with a block of each kind on a Nakamoto parent: an
\* extension, at which the ongoing tenure changes and the block-found tenure
\* does not, a BlockFound block at which both change, and a block without
\* tenure-change at which neither does.
C26_Witness ==
    \E a, b, c \in DOMAIN chainstate.blocks :
        /\ chainstate.blocks[a].header.parent_block_id \in DOMAIN chainstate.blocks
        /\ \E tx \in chainstate.blocks[a].tenure_tx : tx.cause = "Extended"
        /\ get_ongoing_tenure(chainstate, a)
               # get_ongoing_tenure(chainstate,
                     chainstate.blocks[a].header.parent_block_id)
        /\ get_block_found_tenure(chainstate, a,
                                  chainstate.blocks[a].header.consensus_hash)
               = get_block_found_tenure(chainstate, 1,
                                        FirstBlock.header.consensus_hash)
        /\ chainstate.blocks[b].header.parent_block_id = a
        /\ get_tenure_change_tx_payload(chainstate.blocks[b]) # NoTenure
        /\ get_block_found_tenure(chainstate, b,
                                  chainstate.blocks[b].header.consensus_hash)
               = get_ongoing_tenure(chainstate, b)
        /\ chainstate.blocks[c].header.parent_block_id = b
        /\ chainstate.blocks[c].tenure_tx = {}
        /\ get_ongoing_tenure(chainstate, c) = get_ongoing_tenure(chainstate, b)

\* ------------------------------------------------------------------------
\* Properties of the boot run loop

\* What C30 asks of every step of the boot run loop.
BootStep ==
    \* the Nakamoto run loop starts once, and not while the neon one runs
    /\ naka_starts' # naka_starts =>
           /\ naka_starts = 0 /\ naka_starts' = 1
           /\ ~neon_running /\ ~neon_running'
           /\ active_loop' = "Epoch3"
           \* after a neon run loop only at the transition, detected by the
           \* epoch-2/3-boot thread
           /\ neon_starts = 1 =>
                  /\ exited_for_transition
                  /\ burn_height >= epoch_3_start_height - 1
    /\ ~(neon_running' /\ naka_running')
    \* the boot run loop stops the neon run loop at the transition only
    /\ (exited_for_transition' /\ ~exited_for_transition) =>
           /\ burn_height >= epoch_3_start_height - 1
           /\ ~termination_switch'
    \* the active loop never goes back
    /\ active_loop = "Epoch3" => active_loop' = "Epoch3"

\* C30: a boot run loop started in epoch 2 runs the neon run loop until the
\* epoch-2/3-boot thread detects the epoch 3.0 transition; it then stops the
\* neon run loop and starts the Nakamoto run loop, once, and never while the
\* neon run loop is running; the active loop never goes back from Epoch3 to
\* Epoch2.
C30_NeonThenNakamotoOnce ==
    /\ [][BootStep]_vars
    /\ (stopper_pc = "transition") ~> (naka_starts = 1 /\ ~neon_running)

\* The neon run loop ran to the transition, which the epoch-2/3-boot thread
\* detected, and the Nakamoto run loop then started in its place.
C30_Witness ==
    /\ neon_starts = 1
    /\ naka_starts = 1
    /\ naka_running
    /\ ~neon_running
    /\ active_loop = "Epoch3"
    /\ exited_for_transition
    /\ termination_switch

C37_StopRequestNeverLost ==
    stop_requested = "Epoch2" => ~(naka_running /\ termination_switch)

\* C38: every test for the transition answers that it is reached exactly
\* if the burn height, taken as 0 when the sortition database cannot be
\* read, is at least the epoch 3.0 start height minus one.
C38_TransitionReachedExactly ==
    transition_check.do_transition
        <=> (IF transition_check.db_ok THEN transition_check.burn_height ELSE 0)
                >= epoch_3_start_height - 1

\* ------------------------------------------------------------------------
\* Properties of the test node's record of tenures

\* C32: a call that records extension blocks while no tenure is recorded
\* panics and leaves no tenure recorded, whatever the blocks; with a tenure
\* recorded the call does not panic, and appends the blocks to the last
\* tenure.
C32_ExtendWithoutTenurePanics ==
    [][node_op' = "extended" =>
          IF nakamoto_blocks = <<>>
          THEN node_panic' /\ nakamoto_blocks' = <<>>
          ELSE /\ ~node_panic'
               /\ Len(nakamoto_blocks') = Len(nakamoto_blocks)
               /\ recorded_blocks(nakamoto_blocks')
                      >= recorded_blocks(nakamoto_blocks)]_node_vars

\* The first call on a node recorded extension blocks, and panicked.
C32_Witness ==
    /\ node_op = "extended"
    /\ node_panic
    /\ nakamoto_blocks = <<>>

\* ------------------------------------------------------------------------
\* Properties of the get-signer endpoint

\* C40: every request new_getsigner builds has a path that the handler's
\* path_regex matches, and the handler parses from it the public key and
\* the reward cycle the request was built for.
C40_GetSignerRoundTrip ==
    getsigner_decoded # "none" =>
        /\ getsigner_decoded = "Ok"
        /\ getsigner_handler.signer_pubkey
               = {Some(getsigner_request).signer_pubkey}
        /\ getsigner_handler.reward_cycle = {Some(getsigner_request).cycle_num}


\* ------------------------------------------------------------------------
\* Tenure extension across an empty sortition

\* A step of the plan that adds a burn block without a winner.
EmptySortitionStep ==
    /\ Len(sortdb') = Len(sortdb) + 1
    /\ ~sortdb'[Len(sortdb')].sortition

\* C33: when a sortition elects no miner and the miner extends its tenure,
\* the chain keeps producing blocks across it (the extension is accepted and
\* the canonical tip rises by one block), the ongoing tenure keeps the id it
\* had, which is the consensus hash of the latest block, and its burn view
\* becomes the new sortition tip; and as long as the plan runs, the ongoing
\* tenure at the canonical tip has the consensus hash of the last block as
\* its id and the sortition tip as its burn view.
C33_ExtendAcrossEmptySortition ==
    /\ [][EmptySortitionStep =>
             LET before == get_ongoing_tenure(chainstate, stacks_tip)
                 after == get_ongoing_tenure(chainstate', stacks_tip')
             IN  /\ processed_blocks' # {}
                 /\ stacks_tip' \in processed_blocks'
                 /\ chainstate'.blocks[stacks_tip'].header.chain_length
                        = chainstate.blocks[stacks_tip].header.chain_length + 1
                 /\ Cardinality(after) = 1
                 /\ Some(after).tenure_id_consensus_hash
                        = Some(before).tenure_id_consensus_hash
                 /\ Some(after).tenure_id_consensus_hash
                        = chainstate'.blocks[last_block'].header.consensus_hash
                 /\ Some(after).tenure_id_consensus_hash < Len(sortdb')
                 /\ Some(after).burn_view_consensus_hash = Len(sortdb')
                 /\ Some(after).cause = "Extended"]_vars
    /\ [](plan_running =>
             LET highest_tenure == get_ongoing_tenure(chainstate, stacks_tip)
             IN  /\ Cardinality(highest_tenure) = 1
                 /\ Some(highest_tenure).tenure_id_consensus_hash
                        = chainstate.blocks[last_block].header.consensus_hash
                 /\ Some(highest_tenure).burn_view_consensus_hash
                        = Len(sortdb))

\* A tenure extended across two empty sortitions in a row, with a block of
\* transactions in between, and still ongoing at the canonical tip.
C33_Witness ==
    /\ plan_running
    /\ Len(sortdb) >= 4
    /\ ~sortdb[Len(sortdb)].sortition
    /\ ~sortdb[Len(sortdb) - 1].sortition
    /\ Len(chainstate.blocks) >= 4
    /\ \E t \in get_ongoing_tenure(chainstate, stacks_tip) :
           /\ t.cause = "Extended"
           /\ t.tenure_id_consensus_hash = 2
           /\ t.burn_view_consensus_hash = Len(sortdb)
    /\ \E id \in DOMAIN chainstate.blocks : chainstate.blocks[id].tenure_tx = {}

\* ------------------------------------------------------------------------
\* Stale machines and the run-loop state

\* An attempt of the refresh step that succeeds.
RefreshSucceeds == AttemptStep /\ refresh_ok'

\* C35 as stated: after every refresh attempt that succeeds, every machine
\* of the map is for the current or the next reward cycle.
C35_NoStaleMachineAfterRefresh ==
    [][RefreshSucceeds =>
          \A k \in DOMAIN stacks_signers' :
              stacks_signers'[k].reward_cycle
                  \in {chain_cycle', chain_cycle' + 1}]_vars

\* C35, amended: after every refresh attempt that succeeds, every machine
\* of the map is for the current or the next reward cycle, or is a machine
\* of an older cycle under a parity key for whose newer cycle the local
\* signer is not registered; a machine for an older cycle is never left
\* under its parity key once the cycle has advanced and the local signer is
\* registered for the newer cycle of that parity.
C35_StaleMachineOnlyWhereUnregistered ==
    [][RefreshSucceeds =>
          \A k \in DOMAIN stacks_signers' :
              LET s == stacks_signers'[k]
                  newer == IF reward_index(chain_cycle') = k
                           THEN chain_cycle' ELSE chain_cycle' + 1
              IN  \/ s.reward_cycle = newer
                  \/ /\ s.reward_cycle < chain_cycle'
                     /\ reward_index(s.reward_cycle) = k
                     /\ ~(\/ newer = chain_cycle' /\ reg_cur'
                          \/ newer = chain_cycle' + 1 /\ reg_next')
                     /\ k \in DOMAIN stacks_signers
                     /\ stacks_signers[k].reward_cycle = s.reward_cycle]_vars

\* A refresh step has succeeded with two machines of older cycles in the
\* map, or with an older machine beside one it has just put in for a newer
\* cycle of the other parity.
C35_Witness ==
    /\ pc = "process"
    /\ refresh_ok
    /\ \E k \in DOMAIN stacks_signers :
           /\ stacks_signers[k].reward_cycle < chain_cycle
           /\ \E j \in DOMAIN stacks_signers :
                  /\ j # k
                  /\ stacks_signers[j].reward_cycle
                         \in {chain_cycle, chain_cycle + 1}

\* C36: once the run-loop state is Initialized every step leaves it
\* Initialized, also when the map is empty and the local signer is
\* registered for no cycle; and from then on no pass returns from its
\* refresh step: an attempt is retried or the pass goes on to route its
\* command and to deliver the event to every machine of the map.
C36_InitializedIsPermanent ==
    [][state = "Initialized" =>
          /\ state' = "Initialized"
          /\ pc = "refresh" => pc' \in {"refresh", "process"}
          /\ last'.kind # "returned"
          /\ (pc = "process" /\ pc' = "idle") =>
                 /\ last'.kind = "processed"
                 /\ last'.delivered = DOMAIN stacks_signers
                 /\ last'.ran = DOMAIN stacks_signers]_vars

\* An initialized run loop whose machines have all been deleted and whose
\* signer is registered for no cycle has had its refresh step fail and has
\* gone on to process the pass.
C36_Witness ==
    /\ state = "Initialized"
    /\ pc = "idle"
    /\ ~reg_cur
    /\ ~reg_next
    /\ stacks_signers = EmptyMap
    /\ last.kind = "processed"
    /\ ~last.refresh_ok
    /\ last.refreshed = EmptyMap

\* ------------------------------------------------------------------------
\* The public-key table of a resolved committee

\* C39: the StacksNodeInfo a call returns carries, for every entry of the
\* reward set, the entry's public key under its signer id in
\* public_keys.signers, besides the key of every key id in
\* public_keys.key_ids, and an entry under every signer id in
\* signer_key_ids.
C39_FullPublicKeyTable ==
    resolved.result.kind = "Some" =>
        LET info == resolved.result.info
            reward_set_signers == Some(node.signers)
        IN  \A i \in DOMAIN reward_set_signers :
                LET signer_id == i - 1
                IN  /\ signer_id \in DOMAIN info.public_keys.signers
                    /\ info.public_keys.signers[signer_id]
                           = reward_set_signers[i].address
                    /\ signer_id \in DOMAIN info.signer_key_ids
                    /\ \A key_id \in info.signer_key_ids[signer_id] :
                           /\ key_id \in DOMAIN info.public_keys.key_ids
                           /\ info.public_keys.key_ids[key_id]
                                  = reward_set_signers[i].address

====
